---- MODULE Spec2Model ----
(***************************************************************************)
(* Fishing Predictor: the scoring and recommendation library (lib.js), its  *)
(* time-to-live cache, the network helpers and effects of App.jsx, and the *)
(* service worker.                                                         *)
(*                                                                         *)
(* JavaScript values are tagged records: null, undefined, NaN, numbers,    *)
(* strings (sequences of one-character strings), objects and arrays.       *)
(* A JavaScript number x is held as the integer 100 * x (NumScale), so     *)
(* that 29.95 and 0.35 are exact.  The points a score component returns    *)
(* are held as exact rationals over the common denominator PointScale.     *)
(***************************************************************************)
EXTENDS Integers, Sequences, FiniteSets, TLC

VARIABLES
    species,      \* successScore: argument species
    waterType,    \* successScore: argument waterType
    derived,      \* successScore: argument derived (the conditions object)
    parts,        \* successScore: its locals t, w, c, p, u, raw (null on early return)
    score,        \* successScore: its return value
    name,         \* bandForSpecies: argument species
    band,         \* bandForSpecies: its return value
    sunriseTs,    \* bestWindows: argument sunriseTs
    sunsetTs,     \* bestWindows: argument sunsetTs
    hourly,       \* bestWindows: argument hourly
    scored,       \* bestWindows: the hours it considers, each with its score
    windows,      \* bestWindows: its return value
    gear,         \* suggestGear: its return value (null before any call)
    now,          \* Date.now(), in hours
    storage,      \* localStorage: the text held under each key (null when missing)
    cacheCall,    \* per key, the last cacheSet call: value, ttlMs, its time, setItem threw
    cacheRead,    \* the last cacheGet call: key and the value returned
    sitesPc,      \* fetchUSGSSites: where the call waits ("idle" when none runs)
    sitesResult,  \* fetchUSGSSites: the list its promise resolved to
    network,      \* fetchUSGSSites: the URLs fetched during the call
    mirror,       \* fetchOverpass: the mirror it waits for (0 when none)
    lastErr,      \* fetchOverpass: its local lastErr
    tried,        \* fetchOverpass: the mirrors fetched during the call, with their answers
    overpassOutcome, \* fetchOverpass: what the call returned or threw (null while it runs)
    pos,          \* useGeolocation: its state pos
    geoPending,   \* getCurrentPosition requests not answered yet
    findPending,  \* handleFindPlace calls waiting for geocodePlace
    center,       \* App: its state center
    selectedSiteId,  \* App: its state selectedSiteId
    siteInfo,     \* App: its state siteInfo
    sites,        \* App: its state sites
    dateIso,      \* App: its state dateIso
    wx,           \* App: its state wx
    hydro,        \* App: its state hydro
    sitesInFlight,   \* the centers whose fetchUSGSSites the refetch effect waits for
    wxInFlight,   \* the runs of the weather effect that wait: site, date, what for
    swCache,      \* service worker: the response the cache holds for each URL
    swEvents      \* service worker: its fetch events, in order, each with its progress

vars == <<species, waterType, derived, parts, score, name, band,
          sunriseTs, sunsetTs, hourly, scored, windows, gear,
          now, storage, cacheCall, cacheRead,
          sitesPc, sitesResult, network, mirror, lastErr, tried, overpassOutcome,
          pos, geoPending, findPending, center, selectedSiteId, siteInfo, sites,
          dateIso, wx, hydro, sitesInFlight, wxInFlight, swCache, swEvents>>

scoreVars == <<species, waterType, derived, parts, score>>
bandVars == <<name, band>>
windowVars == <<sunriseTs, sunsetTs, hourly, scored, windows>>
gearVars == <<gear>>
cacheVars == <<now, storage, cacheCall, cacheRead>>
libVars == <<scoreVars, bandVars, windowVars, gearVars>>
overpassVars == <<mirror, lastErr, tried, overpassOutcome>>
sitesVars == <<sitesPc, sitesResult, network, overpassVars>>
geoVars == <<pos, geoPending, findPending>>
appVars == <<geoVars, center, selectedSiteId, siteInfo, sites, dateIso, wx, hydro,
             sitesInFlight, wxInFlight>>
workerVars == <<swCache, swEvents>>
netVars == <<sitesVars, appVars, workerVars>>
ioVars == <<cacheVars, netVars>>

----------------------------------------------------------------------------
(* JavaScript values *)

NumScale == 100

PointScale == 2730000

Null == [type |-> "null"]

Undefined == [type |-> "undefined"]

NaN == [type |-> "nan"]

\* what a call that throws a TypeError yields
TypeError == [type |-> "TypeError"]

\* the number x, given as the integer 100 * x
Num(n) == [type |-> "number", n |-> n]

\* the whole number k
Whole(k) == Num(k * NumScale)

Str(chars) == [type |-> "string", chars |-> chars]

\* a string literal the code only passes on, held whole
Text(text) == [type |-> "text", text |-> text]

Conditions(t, w, c, p, u) ==
    [type |-> "object", waterTempF |-> t, windMph |-> w, cloudPct |-> c,
     barometerInHg |-> p, turbidityFnu |-> u]

\* !v is false
Truthy(v) ==
    CASE v.type = "null" -> FALSE
      [] v.type = "undefined" -> FALSE
      [] v.type = "nan" -> FALSE
      [] v.type = "number" -> v.n # 0
      [] v.type = "string" -> v.chars # <<>>
      [] v.type = "text" -> v.text # ""
      [] v.type = "array" -> TRUE
      [] OTHER -> TRUE

\* v ?? d
Coalesce(v, d) == IF v.type \in {"null", "undefined"} THEN d ELSE v

\* v || 0
OrZero(v) == IF Truthy(v) THEN v ELSE Num(0)

NumberIsFinite(v) == v.type = "number"

Abs(x) == IF x < 0 THEN -x ELSE x

Min(a, b) == IF a <= b THEN a ELSE b

Max(a, b) == IF a >= b THEN a ELSE b

\* Math.round of the rational x / den (den > 0): floor(x / den + 1/2)
MathRound(x, den) == (2 * x + den) \div (2 * den)

----------------------------------------------------------------------------
(* Strings *)

UpperChars == <<"A", "B", "C", "D", "E", "F", "G", "H", "I", "J", "K", "L", "M",
                "N", "O", "P", "Q", "R", "S", "T", "U", "V", "W", "X", "Y", "Z">>

LowerChars == <<"a", "b", "c", "d", "e", "f", "g", "h", "i", "j", "k", "l", "m",
                "n", "o", "p", "q", "r", "s", "t", "u", "v", "w", "x", "y", "z">>

\* the lower-case letter of each upper-case letter
RECURSIVE LowerMap(_)
LowerMap(i) ==
    IF i = 0 THEN <<>>
    ELSE (UpperChars[i] :> LowerChars[i]) @@ LowerMap(i - 1)

LowerOf == LowerMap(Len(UpperChars))

toLowerCaseChar(ch) == IF ch \in DOMAIN LowerOf THEN LowerOf[ch] ELSE ch

RECURSIVE toLowerCase(_)
toLowerCase(chars) ==
    IF chars = <<>> THEN <<>>
    ELSE <<toLowerCaseChar(Head(chars))>> \o toLowerCase(Tail(chars))

\* String(v || "") for v null, undefined or a string
StringOrEmpty(v) == IF Truthy(v) THEN v.chars ELSE <<>>

matchesAt(chars, i, word) ==
    /\ i + Len(word) - 1 <= Len(chars)
    /\ \A k \in 1..Len(word) : chars[i + k - 1] = word[k]

\* /(w1|w2|...)/.test(chars): scan for the leftmost position where an alternative matches
RECURSIVE regexScan(_, _, _)
regexScan(alternatives, chars, i) ==
    IF i > Len(chars) THEN FALSE
    ELSE IF \E k \in 1..Len(alternatives) : matchesAt(chars, i, alternatives[k]) THEN TRUE
    ELSE regexScan(alternatives, chars, i + 1)

regexTest(alternatives, chars) == regexScan(alternatives, chars, 1)

\* chars.includes(word)
includes(chars, word) ==
    \E i \in 1..(Len(chars) + 1) : matchesAt(chars, i, word)

----------------------------------------------------------------------------
(* Scoring *)

PREFS ==
    [warm |-> [ideal |-> 68, low |-> 55, high |-> 82],
     cool |-> [ideal |-> 62, low |-> 50, high |-> 75],
     cold |-> [ideal |-> 54, low |-> 40, high |-> 62]]

ColdPattern ==
    << <<"t", "r", "o", "u", "t">>,
       <<"s", "a", "l", "m", "o", "n">>,
       <<"g", "r", "a", "y", "l", "i", "n", "g">>,
       <<"w", "h", "i", "t", "e", "f", "i", "s", "h">>,
       <<"s", "t", "e", "e", "l", "h", "e", "a", "d">>,
       <<"k", "o", "k", "a", "n", "e", "e">>,
       <<"l", "a", "k", "e", " ", "t", "r", "o", "u", "t">> >>

CoolPattern ==
    << <<"w", "a", "l", "l", "e", "y", "e">>,
       <<"s", "a", "u", "g", "e", "r">>,
       <<"p", "i", "k", "e">>,
       <<"m", "u", "s", "k">>,
       <<"p", "i", "c", "k", "e", "r", "e", "l">> >>

\* bandForSpecies without the lower-casing
bandForSpeciesCaseSensitive(sp) ==
    LET s == StringOrEmpty(sp)
    IN  IF regexTest(ColdPattern, s) THEN "cold"
        ELSE IF regexTest(CoolPattern, s) THEN "cool"
        ELSE "warm"

bandForSpecies(sp) ==
    LET s == toLowerCase(StringOrEmpty(sp))
    IN  IF regexTest(ColdPattern, s) THEN "cold"
        ELSE IF regexTest(CoolPattern, s) THEN "cool"
        ELSE "warm"

LargemouthBass == Str(<<"L", "a", "r", "g", "e", "m", "o", "u", "t", "h", " ", "B", "a", "s", "s">>)

RainbowTrout == Str(<<"R", "a", "i", "n", "b", "o", "w", " ", "T", "r", "o", "u", "t">>)

WalleyeName == Str(<<"W", "a", "l", "l", "e", "y", "e">>)

\* the species the scoring calls are made with
SpeciesList == <<Null, Undefined, Str(<<>>), LargemouthBass, RainbowTrout, WalleyeName>>

NorthernPike == Str(<<"N", "o", "r", "t", "h", "e", "r", "n", " ", "P", "i", "k", "e">>)

Muskellunge == Str(<<"M", "u", "s", "k", "e", "l", "l", "u", "n", "g", "e">>)

ChainPickerel == Str(<<"C", "h", "a", "i", "n", " ", "P", "i", "c", "k", "e", "r", "e", "l">>)

Crappie == Str(<<"C", "r", "a", "p", "p", "i", "e">>)

\* species typed by hand: upper case, and a name with a cold and a pike keyword
TypedMuskie == Str(<<"M", "U", "S", "K", "I", "E">>)

TypedPikeOrTrout == Str(<<"P", "i", "k", "e", " ", "o", "r", " ", "T", "r", "o", "u", "t">>)

\* the species the gear calls are made with
GearSpeciesList ==
    SpeciesList \o <<NorthernPike, Muskellunge, ChainPickerel, Crappie, TypedMuskie,
                     TypedPikeOrTrout>>

RECURSIVE BandRows(_)
BandRows(i) ==
    IF i = 0 THEN <<>>
    ELSE (GearSpeciesList[i] :> bandForSpecies(GearSpeciesList[i])) @@ BandRows(i - 1)

BandTable == BandRows(Len(GearSpeciesList))

\* bandForSpecies(sp); it is pure, and is tabulated once for the species of GearSpeciesList
bandOf(sp) == IF sp \in DOMAIN BandTable THEN BandTable[sp] ELSE bandForSpecies(sp)

clamp(v, lo, hi) == Min(hi, Max(lo, v))

\* the fraction 1 - d / window, as numerator and denominator
oneMinus(d, window) == [num |-> window - d, den |-> window]

\* clamp(f, 0, 1) of a fraction with a positive denominator
clamp01(f) == [num |-> clamp(f.num, 0, f.den), den |-> f.den]

\* pct * pts, in points over PointScale
pctTimes(pct, pts) == pct.num * ((pts * PointScale) \div pct.den)

Points(k) == k * PointScale

\* tempComponent without its base of 35 points
tempComponentNoBase(tempF, sp) ==
    IF ~NumberIsFinite(tempF) THEN Points(45)
    ELSE LET b == PREFS[bandOf(sp)]
             ideal == b.ideal * NumScale
             spread == IF tempF.n <= ideal THEN ideal - b.low * NumScale
                       ELSE b.high * NumScale - ideal
             d == Abs(tempF.n - ideal)
             pct == clamp01(oneMinus(d, Max(8 * NumScale, spread)))
         IN  pctTimes(pct, 50)

\* tempComponent with the falloff subtracted from the ceiling the wrong way round
tempComponentInverted(tempF, sp) ==
    IF ~NumberIsFinite(tempF) THEN Points(45)
    ELSE LET b == PREFS[bandOf(sp)]
             ideal == b.ideal * NumScale
             spread == IF tempF.n <= ideal THEN ideal - b.low * NumScale
                       ELSE b.high * NumScale - ideal
             d == Abs(tempF.n - ideal)
             pct == clamp01(oneMinus(d, Max(8 * NumScale, spread)))
         IN  Points(85) - pctTimes(pct, 50)

tempComponent(tempF, sp) ==
    IF ~NumberIsFinite(tempF) THEN Points(45)
    ELSE LET b == PREFS[bandOf(sp)]
             ideal == b.ideal * NumScale
             low == b.low * NumScale
             high == b.high * NumScale
             spread == IF tempF.n <= ideal THEN ideal - low ELSE high - ideal
             d == Abs(tempF.n - ideal)
             pct == clamp01(oneMinus(d, Max(8 * NumScale, spread)))
         IN  Points(35) + pctTimes(pct, 50)

Sweet(wt) ==
    IF includes(toLowerCase(StringOrEmpty(wt)), <<"r", "i", "v", "e", "r">>) THEN 3 ELSE 6

\* windComponent with an unknown wind scored as the neutral 5
windComponentNeutral(windMph, wt) ==
    IF ~NumberIsFinite(windMph) THEN Points(5)
    ELSE LET sweet == Sweet(wt) * NumScale
             d == Abs(OrZero(windMph).n - sweet)
             pct == clamp01(oneMinus(d, 10 * NumScale))
         IN  pctTimes(pct, 10)

\* windComponent without the clamp of the fraction
windComponentNoClamp(windMph, wt) ==
    IF ~NumberIsFinite(windMph) THEN Points(10)
    ELSE LET sweet == Sweet(wt) * NumScale
             d == Abs(OrZero(windMph).n - sweet)
             pct == oneMinus(d, 10 * NumScale)
         IN  pctTimes(pct, 10)

windComponent(windMph, wt) ==
    IF ~NumberIsFinite(windMph) THEN Points(10)
    ELSE LET sweet == Sweet(wt) * NumScale
             d == Abs(OrZero(windMph).n - sweet)
             pct == clamp01(oneMinus(d, 10 * NumScale))
         IN  pctTimes(pct, 10)

cloudComponent(cloudPct, sp) ==
    IF ~NumberIsFinite(cloudPct) THEN Points(5)
    ELSE LET isTrout == bandOf(sp) = "cold"
             target == (IF isTrout THEN 60 ELSE 40) * NumScale
             d == Abs(OrZero(cloudPct).n - target)
             pct == clamp01(oneMinus(d, 50 * NumScale))
         IN  pctTimes(pct, 8)

\* pressureComponent with a decay window of 3.5 inHg
pressureComponentWideWindow(inHg) ==
    IF ~NumberIsFinite(inHg) THEN Points(5)
    ELSE LET centerInHg == 2995
             d == Abs(inHg.n - centerInHg)
             pct == clamp01(oneMinus(d, 350))
         IN  pctTimes(pct, 7)

pressureComponent(inHg) ==
    IF ~NumberIsFinite(inHg) THEN Points(5)
    ELSE LET centerInHg == 2995
             d == Abs(inHg.n - centerInHg)
             pct == clamp01(oneMinus(d, 35))
         IN  pctTimes(pct, 7)

\* turbidityComponent with the warm-water decay window for every band
turbidityComponentOneWindow(fnu, sp) ==
    IF ~NumberIsFinite(fnu) THEN Points(5)
    ELSE LET isTrout == bandOf(sp) = "cold"
             ideal == (IF isTrout THEN 5 ELSE 15) * NumScale
             d == Abs(OrZero(fnu).n - ideal)
             pct == clamp01(oneMinus(d, 25 * NumScale))
         IN  pctTimes(pct, 5)

\* turbidityComponent with the falsy test !fnu for the unknown reading, which
\* takes a measured 0 for unknown
turbidityComponentZeroIsUnknown(fnu, sp) ==
    IF ~Truthy(fnu) THEN Points(5)
    ELSE LET isTrout == bandOf(sp) = "cold"
             ideal == (IF isTrout THEN 5 ELSE 15) * NumScale
             d == Abs(OrZero(fnu).n - ideal)
             pct == clamp01(oneMinus(d, (IF isTrout THEN 10 ELSE 25) * NumScale))
         IN  pctTimes(pct, 5)

turbidityComponent(fnu, sp) ==
    IF ~NumberIsFinite(fnu) THEN Points(5)
    ELSE LET isTrout == bandOf(sp) = "cold"
             ideal == (IF isTrout THEN 5 ELSE 15) * NumScale
             d == Abs(OrZero(fnu).n - ideal)
             pct == clamp01(oneMinus(d, (IF isTrout THEN 10 ELSE 25) * NumScale))
         IN  pctTimes(pct, 5)

\* the body of successScore after its guard; reading a property of null or of
\* undefined throws a TypeError
scoreLocals(sp, wt, d) ==
    IF d.type \in {"null", "undefined"} THEN TypeError
    ELSE LET t == tempComponent(d.waterTempF, sp)
             w == windComponent(d.windMph, wt)
             c == cloudComponent(d.cloudPct, sp)
             p == pressureComponent(d.barometerInHg)
             u == turbidityComponent(d.turbidityFnu, sp)
         IN  [type |-> "locals", t |-> t, w |-> w, c |-> c, p |-> p, u |-> u,
              raw |-> t + w + c + p + u]

\* scoreParts with a guard that forgets the conditions object
scorePartsSpeciesOnly(sp, wt, d) ==
    IF ~Truthy(sp) THEN Null
    ELSE scoreLocals(sp, wt, d)

\* scoreParts with a guard that also gives up on an unknown water temperature
scorePartsNeedsTemp(sp, wt, d) ==
    IF ~Truthy(sp) \/ ~Truthy(d) THEN Null
    ELSE IF ~NumberIsFinite(d.waterTempF) THEN Null
    ELSE scoreLocals(sp, wt, d)

\* scoreParts with a guard that tests the species for null and undefined only
scorePartsNullishOnly(sp, wt, d) ==
    IF sp.type \in {"null", "undefined"} \/ ~Truthy(d) THEN Null
    ELSE scoreLocals(sp, wt, d)

\* the locals of successScore; null when it returns early
scoreParts(sp, wt, d) ==
    IF ~Truthy(sp) \/ ~Truthy(d) THEN Null
    ELSE scoreLocals(sp, wt, d)

\* scoreReturn without the clamp
scoreReturnNoClamp(l) ==
    IF l.type \in {"null", "TypeError"} THEN l
    ELSE Whole(MathRound(l.raw, PointScale))

\* the value successScore returns (or the error it throws), given its locals
scoreReturn(l) ==
    IF l.type \in {"null", "TypeError"} THEN l
    ELSE Whole(MathRound(clamp(l.raw, Points(0), Points(100)), PointScale))

successScore(sp, wt, d) == scoreReturn(scoreParts(sp, wt, d))

----------------------------------------------------------------------------
(* Gear *)

\* The texts of the recommendations are held in ASCII: a hyphen for the en
\* dash, straight quotes for the typographic ones.

\* arr(...xs) without the filter
arrKeepAll(xs) == xs

\* arr(...xs): xs.filter(Boolean)
arr(xs) == SelectSeq(xs, Truthy)

MuskPikePattern == << <<"m", "u", "s", "k">>, <<"p", "i", "k", "e">> >>

WalleyeSaugerPattern == << <<"w", "a", "l", "l", "e", "y", "e">>, <<"s", "a", "u", "g", "e", "r">> >>

\* String(waterType || "").toLowerCase().includes("river")
isRiver(wt) == includes(toLowerCase(StringOrEmpty(wt)), <<"r", "i", "v", "e", "r">>)

\* stained with the clear-water level of 5 FNU as its threshold
stainedAbove5(conditions) ==
    LET fnu == IF conditions.type \in {"null", "undefined"} THEN Num(0)
               ELSE Coalesce(conditions.turbidityFnu, Num(0))
    IN  fnu.type = "number" /\ fnu.n > 5 * NumScale

\* stained with the threshold itself counted as stained
stainedFrom15(conditions) ==
    LET fnu == IF conditions.type \in {"null", "undefined"} THEN Num(0)
               ELSE Coalesce(conditions.turbidityFnu, Num(0))
    IN  fnu.type = "number" /\ fnu.n >= 15 * NumScale

\* (conditions?.turbidityFnu ?? 0) > 15
stained(conditions) ==
    LET fnu == IF conditions.type \in {"null", "undefined"} THEN Num(0)
               ELSE Coalesce(conditions.turbidityFnu, Num(0))
    IN  fnu.type = "number" /\ fnu.n > 15 * NumScale

\* rodAndLine with the pike/musk test made before the band is looked at
rodAndLineOverrideFirst(sp) ==
    LET s == toLowerCase(StringOrEmpty(sp))
        r0 == Text("Medium spinning rod, 8-12 lb line")
        r1 == IF regexTest(MuskPikePattern, s)
              THEN Text("Heavy rod, 30-60 lb braid + leader") ELSE r0
        r2 == IF bandOf(sp) = "cold"
              THEN Text("Light/medium-light spinning rod, 4-8 lb line") ELSE r1
        r3 == IF bandOf(sp) = "cool"
              THEN Text("Medium or medium-heavy rod, 8-12 lb line") ELSE r2
    IN  r3

\* stdTackle: rodAndLine, assigned in turn by each if that applies
rodAndLine(sp) ==
    LET s == toLowerCase(StringOrEmpty(sp))
        r0 == Text("Medium spinning rod, 8-12 lb line")
        r1 == IF bandOf(sp) = "cold"
              THEN Text("Light/medium-light spinning rod, 4-8 lb line") ELSE r0
        r2 == IF bandOf(sp) = "cool"
              THEN Text("Medium or medium-heavy rod, 8-12 lb line") ELSE r1
        r3 == IF regexTest(MuskPikePattern, s)
              THEN Text("Heavy rod, 30-60 lb braid + leader") ELSE r2
    IN  r3

\* stdTackle: lures
lures(sp, wt, conditions) ==
    IF bandOf(sp) = "warm"
    THEN arr(<<IF stained(conditions) THEN Text("Spinnerbait (chartreuse)")
               ELSE Text("Spinnerbait (white)"),
               Text("Texas-rigged worm"),
               Text("Jig & trailer"),
               Text("Crankbait (squarebill in shallow cover)")>>)
    ELSE IF bandOf(sp) = "cool"
    THEN arr(<<Text("Jerkbait (suspending)"),
               IF stained(conditions) THEN Text("Vibrating blade bait")
               ELSE Text("Swimbait (natural)"),
               Text("Jig & minnow"),
               IF isRiver(wt) THEN Text("Bucktail inline spinner")
               ELSE Text("Deep diving crank")>>)
    ELSE arr(<<Text("Inline spinner (gold/silver)"),
               Text("Small spoon"),
               Text("Minnow plug (natural)"),
               IF isRiver(wt) THEN Text("Egg pattern drift (float)") ELSE Null>>)

\* stdTackle: locations
locations(wt) ==
    IF isRiver(wt)
    THEN <<Text("Current breaks"), Text("Eddy seams"), Text("Deep pools"),
           Text("Riffle tails at first/last light")>>
    ELSE <<Text("Points & windblown banks"), Text("Weedlines"), Text("Drop-offs"),
           Text("Shallow flats (low light)")>>

stdTackle(sp, wt, conditions) ==
    [rodAndLine |-> rodAndLine(sp),
     lures |-> lures(sp, wt, conditions),
     locations |-> locations(wt)]

\* flyRecs: flySetup
flySetup(sp) ==
    LET s == toLowerCase(StringOrEmpty(sp))
    IN  IF regexTest(MuskPikePattern, s)
        THEN Text("8-10wt, WF floating or intermediate, 6-9' 30-60 lb bite leader")
        ELSE IF regexTest(WalleyeSaugerPattern, s)
        THEN Text("6-7wt, floating/sink-tip, 9' leader")
        ELSE IF bandOf(sp) = "cold"
        THEN Text("4-5wt, WF floating, 9-12' leader")
        ELSE Text("5wt medium-fast, WF floating line, 9' leader")

\* flies with the natural popper whatever the water
fliesAlwaysNatural(sp, conditions) ==
    IF bandOf(sp) = "cold"
    THEN arr(<<Text("Woolly Bugger (olive/black)"), Text("Pheasant Tail Nymph"),
               Text("Hare's Ear Nymph"), Text("Elk Hair Caddis"),
               Text("Adams Parachute")>>)
    ELSE IF bandOf(sp) = "warm"
    THEN arr(<<Text("Foam Popper (natural)"),
               Text("Clouser Minnow"), Text("Crayfish (tan/olive)"),
               Text("Deceiver"), Text("Game Changer")>>)
    ELSE arr(<<Text("Large Deceiver"), Text("Bunny Leech"),
               IF stained(conditions) THEN Text("Flashabou Pike Fly (bright)")
               ELSE Text("Flashabou Pike Fly (natural)"),
               Text("Clouser Minnow (heavy eyes)")>>)

\* flyRecs: flies
flies(sp, conditions) ==
    IF bandOf(sp) = "cold"
    THEN arr(<<Text("Woolly Bugger (olive/black)"), Text("Pheasant Tail Nymph"),
               Text("Hare's Ear Nymph"), Text("Elk Hair Caddis"),
               Text("Adams Parachute")>>)
    ELSE IF bandOf(sp) = "warm"
    THEN arr(<<IF stained(conditions) THEN Text("Foam Popper (bright)")
               ELSE Text("Foam Popper (natural)"),
               Text("Clouser Minnow"), Text("Crayfish (tan/olive)"),
               Text("Deceiver"), Text("Game Changer")>>)
    ELSE arr(<<Text("Large Deceiver"), Text("Bunny Leech"),
               IF stained(conditions) THEN Text("Flashabou Pike Fly (bright)")
               ELSE Text("Flashabou Pike Fly (natural)"),
               Text("Clouser Minnow (heavy eyes)")>>)

\* flyRecs: flyPresentation
flyPresentation(sp, wt) ==
    IF bandOf(sp) = "cold"
    THEN IF isRiver(wt)
         THEN Text("Dead-drift nymphs; swing buggers; dry flies at hatch or low light")
         ELSE Text("Slow hand-twist retrieves near drop-offs; wind lanes at dawn/dusk")
    ELSE IF bandOf(sp) = "warm"
    THEN IF isRiver(wt)
         THEN Text("Popper over seams; strip streamers across current; target wood/rock")
         ELSE Text("Popper over weed edges; strip-baitfish over points and flats")
    ELSE IF isRiver(wt)
         THEN Text("Big streamers across current breaks; pace retrieves; rest in eddies")
         ELSE Text("Count-down streamers along breaks; steady strip with pauses")

flyRecs(sp, wt, conditions) ==
    [flies |-> flies(sp, conditions),
     flySetup |-> flySetup(sp),
     flyPresentation |-> flyPresentation(sp, wt)]

\* suggestGear(species, waterType, conditions): { ...spin, ...fly }
suggestGear(sp, wt, conditions) ==
    LET spin == stdTackle(sp, wt, conditions)
        fly == flyRecs(sp, wt, conditions)
    IN  [type |-> "object",
         rodAndLine |-> spin.rodAndLine, lures |-> spin.lures,
         locations |-> spin.locations,
         flies |-> fly.flies, flySetup |-> fly.flySetup,
         flyPresentation |-> fly.flyPresentation]

----------------------------------------------------------------------------
(* Best time windows *)

\* Timestamps are held in minutes: the code's milliseconds / 60000.  The time
\* of an hourly record is an ISO hour label, held as the number of the hour
\* counted from the epoch.
MinutesPerHour == 60

\* new Date(time).getTime()
DateGetTime(time) == Whole(time * MinutesPerHour)

\* 90 * 60 * 1000 ms
NearMinutes == 90

Hour(time, wind, cloud) == [time |-> time, windMph |-> wind, cloudPct |-> cloud]

Array(items) == [type |-> "array", items |-> items]

scoreHour(h, sunrise, sunset) ==
    LET wind == Coalesce(h.windMph, Whole(5))
        cloud == Coalesce(h.cloudPct, Whole(50))
        s1 == IF wind.type = "number" /\ wind.n <= 10 * NumScale
              THEN 10 * NumScale - Abs(wind.n - 6 * NumScale)
              ELSE 0
        s2 == IF cloud.type = "number" /\ cloud.n >= 30 * NumScale /\ cloud.n <= 80 * NumScale
              THEN 5 * NumScale
              ELSE 2 * NumScale
        t == DateGetTime(h.time)
        s3 == IF Truthy(sunrise) /\ Abs(t.n - sunrise.n) <= NearMinutes * NumScale
              THEN 8 * NumScale
              ELSE 0
        s4 == IF Truthy(sunset) /\ Abs(t.n - sunset.n) <= NearMinutes * NumScale
              THEN 8 * NumScale
              ELSE 0
        s == s1 + s2 + s3 + s4
    IN  Whole(MathRound(Max(0, Min(100 * NumScale, s)), NumScale))

\* items.slice(0, n)
sliceFirst(items, n) == SubSeq(items, 1, Min(n, Len(items)))

\* the least score among the entries of a non-empty array
lowestScoreOf(entries) ==
    LET scores == {entries[i].score.n : i \in 1..Len(entries)}
    IN  CHOOSE m \in scores : \A x \in scores : x >= m

\* entries.sort((a, b) => a.score - b.score): a stable sort, lowest score first
RECURSIVE sortAscending(_)
sortAscending(entries) ==
    IF entries = <<>> THEN <<>>
    ELSE LET top == lowestScoreOf(entries)
             isTop(x) == x.score.n = top
             isLower(x) == x.score.n # top
         IN  SelectSeq(entries, isTop) \o sortAscending(SelectSeq(entries, isLower))

\* the greatest score among the entries of a non-empty array
topScoreOf(entries) ==
    LET scores == {entries[i].score.n : i \in 1..Len(entries)}
    IN  CHOOSE m \in scores : \A x \in scores : x <= m

\* a sort by descending score that puts equal scores in the reverse of their
\* original order
RECURSIVE sortDescendingTiesReversed(_)
sortDescendingTiesReversed(entries) ==
    IF entries = <<>> THEN <<>>
    ELSE LET top == topScoreOf(entries)
             isTop(x) == x.score.n = top
             isLower(x) == x.score.n # top
             tops == SelectSeq(entries, isTop)
         IN  [i \in 1..Len(tops) |-> tops[Len(tops) + 1 - i]]
                 \o sortDescendingTiesReversed(SelectSeq(entries, isLower))

\* entries.sort((a, b) => b.score - a.score): Array.prototype.sort is stable, so
\* the entries come out by descending score, equal scores in their original order
RECURSIVE sortDescending(_)
sortDescending(entries) ==
    IF entries = <<>> THEN <<>>
    ELSE LET top == topScoreOf(entries)
             isTop(x) == x.score.n = top
             isLower(x) == x.score.n # top
         IN  SelectSeq(entries, isTop) \o sortDescending(SelectSeq(entries, isLower))

\* scoredHours without the slice: every hour of the series is scored
scoredHoursWholeSeries(sunrise, sunset, items) ==
    [i \in 1..Len(items) |-> [time |-> items[i].time,
                              score |-> scoreHour(items[i], sunrise, sunset)]]

\* hourly.slice(0, 24).map(h => ({ time: h.time, score: scoreHour(h) }))
scoredHours(sunrise, sunset, items) ==
    LET day == sliceFirst(items, 24)
    IN  [i \in 1..Len(day) |-> [time |-> day[i].time,
                                score |-> scoreHour(day[i], sunrise, sunset)]]

worthShowing(x) == x.score.n >= 10 * NumScale

anyScore(x) == TRUE

\* bestWindows without the filter of the hours that score below 10
bestWindowsNoFilter(sunrise, sunset, h) ==
    IF ~Truthy(h) \/ Len(h.items) = 0 THEN <<>>
    ELSE sliceFirst(sortDescending(SelectSeq(scoredHours(sunrise, sunset, h.items),
                                             anyScore)), 6)

\* bestWindows with a guard for the empty series only: hourly.length of null or
\* of undefined throws, and the error is all the call yields
bestWindowsEmptyOnly(sunrise, sunset, h) ==
    IF ~Truthy(h) THEN <<TypeError>>
    ELSE IF Len(h.items) = 0 THEN <<>>
    ELSE sliceFirst(sortDescending(SelectSeq(scoredHours(sunrise, sunset, h.items),
                                             worthShowing)), 6)

\* the hours bestWindows scores (none when it returns early)
bestWindowsScored(sunrise, sunset, h) ==
    IF ~Truthy(h) \/ Len(h.items) = 0 THEN <<>>
    ELSE scoredHours(sunrise, sunset, h.items)

bestWindows(sunrise, sunset, h) ==
    IF ~Truthy(h) \/ Len(h.items) = 0 THEN <<>>
    ELSE sliceFirst(sortDescending(SelectSeq(scoredHours(sunrise, sunset, h.items),
                                             worthShowing)), 6)

----------------------------------------------------------------------------
(* Inputs of the scoring calls *)

Lake == Str(<<"L", "a", "k", "e">>)

River == Str(<<"R", "i", "v", "e", "r">>)

Stream == Str(<<"S", "t", "r", "e", "a", "m">>)

Unknowns == {Null, Undefined, NaN}

SpeciesInputs == {SpeciesList[i] : i \in 1..Len(SpeciesList)}

WaterTypeInputs == {Null, Str(<<>>), Lake, River, Stream}

TempInputs == {Whole(t) : t \in {30, 47, 54, 58, 62, 68, 90}}

WindInputs == {Whole(w) : w \in {3, 6, 40}}

CloudInputs == {Whole(c) : c \in {0, 40, 60}}

PressureInputs == {Num(p) : p \in {2995, 3030, 3200}}

TurbidityInputs == {Whole(u) : u \in {0, 5, 15, 100}}

ReadingInputs ==
    [waterTempF |-> TempInputs, windMph |-> WindInputs, cloudPct |-> CloudInputs,
     barometerInHg |-> PressureInputs, turbidityFnu |-> TurbidityInputs]

ReadingNames == {"waterTempF", "windMph", "cloudPct", "barometerInHg", "turbidityFnu"}

\* a conditions object none of whose readings is known: each is null, undefined or NaN
NoReadings(unknown) == Conditions(unknown, unknown, unknown, unknown, unknown)

ConditionsInputs == {Null, Undefined} \cup {NoReadings(k) : k \in Unknowns}

----------------------------------------------------------------------------
(* The calls of successScore *)

InitScore ==
    /\ species = Undefined
    /\ waterType = Null
    /\ derived = Undefined
    /\ parts = Null
    /\ score = Null

\* successScore(sp, wt, d): the arguments, the locals and the value returned
CallSuccessScore(sp, wt, d) ==
    /\ species' = sp
    /\ waterType' = wt
    /\ derived' = d
    /\ parts' = scoreParts(sp, wt, d)
    /\ score' = scoreReturn(parts')

\* the next call differs from the last in its species
ScoreSpecies ==
    /\ \E sp \in SpeciesInputs : CallSuccessScore(sp, waterType, derived)
    /\ UNCHANGED <<bandVars, windowVars, gearVars, ioVars>>

\* the next call differs from the last in its water type
\* (only the species is varied after a call without one: every combination of
\* arguments is still reached, through the calls that have a species)
ScoreWaterType ==
    /\ Truthy(species)
    /\ \E wt \in WaterTypeInputs : CallSuccessScore(species, wt, derived)
    /\ UNCHANGED <<bandVars, windowVars, gearVars, ioVars>>

\* the next call gets no conditions object, or a fresh one with no reading known
ScoreConditions ==
    /\ Truthy(species)
    /\ \E d \in ConditionsInputs : CallSuccessScore(species, waterType, d)
    /\ UNCHANGED <<bandVars, windowVars, gearVars, ioVars>>

\* the next call differs from the last in one reading, which is now a known number
ScoreReading ==
    /\ Truthy(species)
    /\ derived.type = "object"
    /\ \E f \in ReadingNames : \E v \in ReadingInputs[f] :
          CallSuccessScore(species, waterType, [derived EXCEPT ![f] = v])
    /\ UNCHANGED <<bandVars, windowVars, gearVars, ioVars>>

\* the next call differs from the last in one reading, which is now a measured 0
ScoreMeasuredZero ==
    /\ Truthy(species)
    /\ derived.type = "object"
    /\ \E f \in ReadingNames :
          CallSuccessScore(species, waterType, [derived EXCEPT ![f] = Whole(0)])
    /\ UNCHANGED <<bandVars, windowVars, gearVars, ioVars>>

----------------------------------------------------------------------------
(* The calls of bandForSpecies *)

MaxNameLen == 20

\* the pieces a species name is typed from
Fragments ==
    {<<"R", "A", "I", "N", "B", "O", "W", " ">>,
     <<"r", "a", "i", "n", "b", "o", "w", " ">>,
     <<"T", "R", "O", "U", "T">>,
     <<"t", "r", "o", "u", "t">>,
     <<" ", "(", "w", "i", "l", "d", ")">>,
     <<"S", "a", "l", "m", "o", "n">>,
     <<"G", "R", "A", "Y", "L", "I", "N", "G">>,
     <<"W", "h", "i", "t", "e", "f", "i", "s", "h">>,
     <<"S", "t", "e", "e", "l">>,
     <<"h", "e", "a", "d">>,
     <<"K", "o", "k", "a", "n", "e", "e">>,
     <<"W", "a", "l", "l", "e", "y", "e">>,
     <<"S", "A", "U", "G", "E", "R">>,
     <<"P", "i", "k", "e">>,
     <<"M", "u", "s", "k">>,
     <<"P", "i", "c", "k", "e", "r", "e", "l">>,
     <<"B", "a", "s", "s">>}

\* bandForSpecies(sp): the argument and the value returned
CallBandForSpecies(sp) ==
    /\ name' = sp
    /\ band' = bandForSpecies(sp)

\* the next call has no name, or the empty name
BandOfNothing ==
    /\ \E sp \in {Null, Undefined, Str(<<>>)} : CallBandForSpecies(sp)
    /\ UNCHANGED <<scoreVars, windowVars, gearVars, ioVars>>

\* the next call has the name of the last call with one more piece typed
BandOfLonger ==
    /\ \E f \in Fragments :
          /\ Len(StringOrEmpty(name)) + Len(f) <= MaxNameLen
          /\ CallBandForSpecies(Str(StringOrEmpty(name) \o f))
    /\ UNCHANGED <<scoreVars, windowVars, gearVars, ioVars>>

----------------------------------------------------------------------------
(* The calls of bestWindows *)

MaxHours == 26

WeatherPeriod == 3

\* the weather of an hour (wind, cloud): both unknown; a light wind under
\* broken cloud; a wind above 10 mph with no cloud reading; a wind of 10 mph
\* under heavy cloud
HourWeather ==
    {<<Null, Undefined>>, <<Num(550), Whole(30)>>, <<Whole(11), NaN>>,
     <<Whole(10), Whole(90)>>}

\* sunrise and sunset (minutes): none; 6:30 and 20:30; 6:30 and 7:30; the
\* epoch itself and none; none and 20:30; none and 0:30 of the next day
SunInputs ==
    {<<Null, Null>>, <<Whole(390), Whole(1230)>>, <<Whole(390), Whole(450)>>,
     <<Whole(0), Null>>, <<Null, Whole(1230)>>, <<Null, Whole(1470)>>}

\* the weather of the hour that follows a series: free for the first
\* WeatherPeriod hours, and after them that of WeatherPeriod hours before
NextWeather(items) ==
    IF Len(items) < WeatherPeriod THEN HourWeather
    ELSE LET h == items[Len(items) + 1 - WeatherPeriod]
         IN  {<<h.windMph, h.cloudPct>>}

\* bestWindows({ sunriseTs, sunsetTs, hourly }): the arguments and the value returned
CallBestWindows(sunrise, sunset, h) ==
    /\ sunriseTs' = sunrise
    /\ sunsetTs' = sunset
    /\ hourly' = h
    /\ scored' = bestWindowsScored(sunrise, sunset, h)
    /\ windows' = bestWindows(sunrise, sunset, h)

\* the next call has no hourly series, or an empty one
WindowsOfNothing ==
    /\ \E h \in {Null, Undefined, Array(<<>>)} : CallBestWindows(sunriseTs, sunsetTs, h)
    /\ UNCHANGED <<scoreVars, bandVars, gearVars, ioVars>>

\* the next call has the series of the last call with one more hour
WindowsOfLonger ==
    /\ hourly.type = "array"
    /\ Len(hourly.items) < MaxHours
    /\ \E w \in NextWeather(hourly.items) :
          CallBestWindows(sunriseTs, sunsetTs,
              Array(Append(hourly.items, Hour(Len(hourly.items), w[1], w[2]))))
    /\ UNCHANGED <<scoreVars, bandVars, gearVars, ioVars>>

\* the next call has other sunrise and sunset times
WindowsOfSun ==
    /\ \E sun \in SunInputs : CallBestWindows(sun[1], sun[2], hourly)
    /\ UNCHANGED <<scoreVars, bandVars, gearVars, ioVars>>

----------------------------------------------------------------------------
(* The calls of suggestGear *)

Reservoir == Str(<<"R", "e", "s", "e", "r", "v", "o", "i", "r">>)

Water == Str(<<"W", "a", "t", "e", "r">>)

UpperRiver == Str(<<"R", "I", "V", "E", "R">>)

GearSpeciesInputs == {GearSpeciesList[i] : i \in 1..Len(GearSpeciesList)}

GearWaterTypeInputs == WaterTypeInputs \cup {Reservoir, Water, UpperRiver}

\* clear water, the stained threshold itself, just above it, and muddy water
GearTurbidityInputs == {Whole(u) : u \in {0, 15, 16, 100}}

GearWindInputs == {Whole(3)}

\* the score and the gear are computed from the same species, water type and
\* conditions (App.jsx, lines 529-536)
CallSuggestGear(sp, wt, d) ==
    /\ CallSuccessScore(sp, wt, d)
    /\ gear' = suggestGear(sp, wt, d)

\* the next call differs from the last in its species
GearSpecies ==
    /\ \E sp \in GearSpeciesInputs : CallSuggestGear(sp, waterType, derived)
    /\ UNCHANGED <<bandVars, windowVars, ioVars>>

\* the next call differs from the last in its water type
GearWaterType ==
    /\ \E wt \in GearWaterTypeInputs : CallSuggestGear(species, wt, derived)
    /\ UNCHANGED <<bandVars, windowVars, ioVars>>

\* the next call gets no conditions object, or a fresh one with no reading known
GearConditions ==
    /\ \E d \in ConditionsInputs : CallSuggestGear(species, waterType, d)
    /\ UNCHANGED <<bandVars, windowVars, ioVars>>

\* the next call differs from the last in its turbidity or in its wind, which
\* is now a known number
GearReading ==
    /\ derived.type = "object"
    /\ \/ \E u \in GearTurbidityInputs :
             CallSuggestGear(species, waterType, [derived EXCEPT !.turbidityFnu = u])
       \/ \E w \in GearWindInputs :
             CallSuggestGear(species, waterType, [derived EXCEPT !.windMph = w])
    /\ UNCHANGED <<bandVars, windowVars, ioVars>>

----------------------------------------------------------------------------
(* The time-to-live cache over localStorage *)

\* the hours the clock runs through
MaxTime == 4

SyntaxError == [type |-> "SyntaxError"]

\* what JSON.stringify writes for a value: NaN becomes null, and so does
\* undefined inside an array; an undefined property is left out, which reads
\* back as undefined
RECURSIVE toJSON(_)
toJSON(v) ==
    CASE v.type = "nan" -> Null
      [] v.type = "array" ->
            Array([i \in 1..Len(v.items) |->
                      IF v.items[i].type = "undefined" THEN Null
                      ELSE toJSON(v.items[i])])
      [] v.type = "object" ->
            [f \in DOMAIN v |-> IF f = "type" THEN "object" ELSE toJSON(v[f])]
      [] OTHER -> v

\* JSON.stringify({ v: value, exp })
JSONstringify(value, exp) == [type |-> "json", v |-> toJSON(value), exp |-> toJSON(exp)]

\* JSON.parse(raw), destructured into { v, exp }
JSONparse(raw) == IF raw.type = "json" THEN [v |-> raw.v, exp |-> raw.exp] ELSE SyntaxError

\* `fp:${key}`
fp(key) == "fp:" \o key

\* cacheGet(key) at time t: the value returned and the storage left behind
cacheGetKeepExpired(key, store, t) ==
    LET raw == store[fp(key)]
        parsed == JSONparse(raw)
    IN  IF ~Truthy(raw) THEN [value |-> Null, storage |-> store]
        ELSE IF parsed = SyntaxError THEN [value |-> Null, storage |-> store]
        ELSE IF Truthy(parsed.exp) /\ Whole(t).n > parsed.exp.n
             THEN [value |-> Null, storage |-> store]
        ELSE [value |-> parsed.v, storage |-> store]

cacheGet(key, store, t) ==
    LET raw == store[fp(key)]
        parsed == JSONparse(raw)
    IN  IF ~Truthy(raw) THEN [value |-> Null, storage |-> store]
        ELSE IF parsed = SyntaxError THEN [value |-> Null, storage |-> store]
        ELSE IF Truthy(parsed.exp) /\ Whole(t).n > parsed.exp.n
             THEN [value |-> Null, storage |-> [store EXCEPT ![fp(key)] = Null]]
        ELSE [value |-> parsed.v, storage |-> store]

\* cacheSet(key, value, ttlMs) at time t: the storage left behind; when
\* setItem throws (the quota is exceeded) the catch leaves it as it was
cacheSet(key, value, ttlMs, store, t, quotaExceeded) ==
    LET exp == IF Truthy(ttlMs) THEN Num(Whole(t).n + ttlMs.n) ELSE Null
    IN  IF quotaExceeded THEN store
        ELSE [store EXCEPT ![fp(key)] = JSONstringify(value, exp)]

\* the key the calls below vary on, and the key fetchUSGSSites uses
CacheKeys == {"k", "sites"}

StorageKeys == {fp(key) : key \in CacheKeys}

\* a measured value, and a reading that failed to parse
CacheValues == {Whole(7), NaN}

\* absent, 0 and one hour
TtlInputs == {Undefined, Whole(0), Whole(1)}

\* the cacheSet calls: every value, ttl and outcome on one key, one call on
\* the other
CacheSetInputs ==
    {<<"k", value, ttlMs, quotaExceeded>> :
        value \in CacheValues, ttlMs \in TtlInputs, quotaExceeded \in BOOLEAN}
    \cup {<<"sites", Whole(7), Whole(1), FALSE>>}

\* what an earlier visit may have left under a key: nothing, the empty
\* string, or text that is not JSON
FoundRaw == {Null, Text(""), Text("not json")}

CacheSet ==
    /\ \E call \in CacheSetInputs :
            LET key == call[1]
                value == call[2]
                ttlMs == call[3]
                quotaExceeded == call[4]
            IN  /\ storage' = cacheSet(key, value, ttlMs, storage, now, quotaExceeded)
                /\ cacheCall' = [cacheCall EXCEPT ![key] =
                                    [value |-> value, ttlMs |-> ttlMs, at |-> now,
                                     threw |-> quotaExceeded]]
    /\ UNCHANGED <<now, cacheRead, libVars, netVars>>

CacheGet ==
    /\ \E key \in CacheKeys :
            LET got == cacheGet(key, storage, now)
            IN  /\ storage' = got.storage
                /\ cacheRead' = [key |-> key, value |-> got.value]
    /\ UNCHANGED <<now, cacheCall, libVars, netVars>>

\* an hour passes
Tick ==
    /\ now < MaxTime
    /\ now' = now + 1
    /\ UNCHANGED <<storage, cacheCall, cacheRead, libVars, netVars>>

----------------------------------------------------------------------------
(* fetchOverpass and fetchUSGSSites *)

OVERPASS_MIRRORS == <<"https://overpass-api.de/api/interpreter",
                      "https://overpass.openstreetmap.fr/api/interpreter">>

USGS_SITE_URL == "https://waterservices.usgs.gov/nwis/site/"

\* `sites:${params.toString()}` for the one center and radius of the calls
SitesKey == "sites"

\* 6 * 60 * 60 * 1000 ms
SitesTtl == Whole(6)

\* the center of the calls
Center == [type |-> "object", lat |-> Whole(40), lon |-> Whole(-86)]

\* the Error a failed request leaves: fetch rejected ("network"), the status
\* was not OK ("status"), or r.json() rejected ("body")
Failure(url, kind) == [type |-> "Error", url |-> url, kind |-> kind]

FailureKinds == {"network", "status", "body"}

Returned(value) == [type |-> "returned", value |-> value]

Threw(error) == [type |-> "threw", error |-> error]

\* an object of the application; its property `type` is held as `water`
Site(id, siteName, lat, lon, water, source) ==
    [type |-> "object", id |-> id, name |-> siteName, lat |-> lat, lon |-> lon,
     water |-> water, source |-> source]

\* parseFloat of a number written out, or of a missing property
parseFloat(v) == IF v.type = "number" THEN v ELSE NaN

LakePattern == << <<"l", "a", "k", "e">>,
                  <<"r", "e", "s", "e", "r", "v", "o", "i", "r">> >>

StreamPattern == << <<"s", "t", "r", "e", "a", "m">>, <<"r", "i", "v", "e", "r">> >>

\* the distance of a site from the center; the sites of the model lie on the
\* meridian of the center, where the distance grows with the difference in latitude
haversineMiles(c, site) == Abs(site.lat.n - c.lat.n) + Abs(site.lon.n - c.lon.n)

nearestOf(c, list) ==
    LET miles == {haversineMiles(c, list[i]) : i \in 1..Len(list)}
    IN  CHOOSE m \in miles : \A x \in miles : x >= m

\* list.sort((a, b) => haversineMiles(center, a) - haversineMiles(center, b))
RECURSIVE sortByDistance(_, _)
sortByDistance(c, list) ==
    IF list = <<>> THEN <<>>
    ELSE LET near == nearestOf(c, list)
             isNear(x) == haversineMiles(c, x) = near
             isFarther(x) == haversineMiles(c, x) # near
         IN  SelectSeq(list, isNear) \o sortByDistance(c, SelectSeq(list, isFarther))

hasCoordinates(site) == NumberIsFinite(site.lat) /\ NumberIsFinite(site.lon)

\* (j?.value?.site || []).map(...).filter(...) of the USGS answer
usgsSites(j) ==
    LET found == IF j.type = "object" /\ Truthy(j.site) THEN j.site.items ELSE <<>>
        siteOf(entry) ==
            LET code == toLowerCase(StringOrEmpty(entry.siteType))
            IN  Site(entry.siteCode, entry.siteName,
                     parseFloat(entry.latitude), parseFloat(entry.longitude),
                     IF regexTest(LakePattern, code) THEN Text("Lake")
                     ELSE IF regexTest(StreamPattern, code) THEN Text("River")
                     ELSE Text("Water"),
                     Text("USGS"))
    IN  SelectSeq([i \in 1..Len(found) |-> siteOf(found[i])], hasCoordinates)

\* (jj.elements || []).map(...).filter(...) of the Overpass answer; jj.elements
\* throws a TypeError when the answer is the JSON null; the list is given as
\* an array
osmSites(jj) ==
    IF jj.type # "object" THEN TypeError
    ELSE LET found == IF Truthy(jj.elements) THEN jj.elements.items ELSE <<>>
             siteOf(e) ==
                 Site(e.id,
                      IF Truthy(e.name) THEN e.name ELSE Text("Unnamed Water"),
                      e.lat, e.lon,
                      IF Truthy(e.waterway) THEN Text("River")
                      ELSE IF Truthy(e.water) THEN e.water ELSE Text("Water"),
                      Text("OSM"))
         IN  Array(SelectSeq([i \in 1..Len(found) |-> siteOf(found[i])], hasCoordinates))

\* catch (e) { lastErr = e }, keeping the first error instead
catchMirrorKeepFirst(err, e) == IF Truthy(err) THEN err ELSE e

\* catch (e) { lastErr = e }
catchMirror(err, e) == e

\* throw lastErr || new Error("All Overpass mirrors failed")
overpassThrows(err) ==
    IF Truthy(err) THEN err ELSE Failure("", "All Overpass mirrors failed")

\* one turn of the loop of fetchOverpass: mirror i has answered
mirrorTurn(i, err, answer) ==
    IF answer.ok
    THEN [outcome |-> Returned(answer.json), mirror |-> 0, lastErr |-> err]
    ELSE LET e == catchMirror(err, Failure(OVERPASS_MIRRORS[i], answer.kind))
         IN  IF i < Len(OVERPASS_MIRRORS)
             THEN [outcome |-> Null, mirror |-> i + 1, lastErr |-> e]
             ELSE [outcome |-> Threw(overpassThrows(e)), mirror |-> 0, lastErr |-> e]

Ok(json) == [ok |-> TRUE, json |-> json]

Failed(kind) == [ok |-> FALSE, kind |-> kind]

\* a request that has been sent and not answered yet
Asked(url) == [url |-> url, answer |-> Failed("pending")]

Answered(log, answer) == [log EXCEPT ![Len(log)].answer = answer]

\* fetchOverpass(query) up to its first await: the first mirror is fetched
startOverpass ==
    /\ mirror' = 1
    /\ lastErr' = Null
    /\ overpassOutcome' = Null
    /\ tried' = <<Asked(OVERPASS_MIRRORS[1])>>
    /\ network' = Append(network, OVERPASS_MIRRORS[1])

\* the return [] of the inner catch, writing the empty list to the cache too
sitesGiveUpCached(store, t) ==
    [result |-> Array(<<>>),
     storage |-> cacheSet(SitesKey, Array(<<>>), SitesTtl, store, t, FALSE)]

\* the return [] of the inner catch
sitesGiveUp(store, t) == [result |-> Array(<<>>), storage |-> store]

\* list.sort(...); cacheSet(key, list, 6 h); return list
sitesReturn(list, store, t, quotaExceeded) ==
    LET sorted == Array(sortByDistance(Center, list))
    IN  [result |-> sorted,
         storage |-> cacheSet(SitesKey, sorted, SitesTtl, store, t, quotaExceeded)]

\* the entries of the USGS answers: a far river, a near lake, a site whose
\* coordinates are missing
FarRiver ==
    [siteCode |-> Text("03335500"), siteName |-> Text("WABASH RIVER"),
     latitude |-> Whole(42), longitude |-> Whole(-86),
     siteType |-> Str(<<"S", "t", "r", "e", "a", "m">>)]

NearLake ==
    [siteCode |-> Text("03339000"), siteName |-> Text("LAKE LEMON"),
     latitude |-> Whole(41), longitude |-> Whole(-86),
     siteType |-> Str(<<"L", "a", "k", "e">>)]

NoCoordinates ==
    [siteCode |-> Text("03340000"), siteName |-> Text("UNSURVEYED"),
     latitude |-> Undefined, longitude |-> Undefined,
     siteType |-> Str(<<"S", "T">>)]

UsgsJson ==
    {Null,
     [type |-> "object", site |-> Array(<<>>)],
     [type |-> "object", site |-> Array(<<NoCoordinates>>)],
     [type |-> "object", site |-> Array(<<FarRiver, NearLake>>)]}

UsgsAnswers == {Ok(j) : j \in UsgsJson} \cup {Failed(kind) : kind \in FailureKinds}

Pond ==
    [id |-> Text("11"), name |-> Undefined, lat |-> Whole(41), lon |-> Whole(-86),
     waterway |-> Undefined, water |-> Text("pond")]

OverpassJson ==
    {Null,
     [type |-> "object", elements |-> Undefined],
     [type |-> "object", elements |-> Array(<<Pond>>)]}

MirrorAnswers == {Ok(j) : j \in OverpassJson} \cup {Failed(kind) : kind \in FailureKinds}

\* fetchOverpass(query), called on its own
CallFetchOverpass ==
    /\ sitesPc = "idle"
    /\ mirror = 0
    /\ mirror' = 1
    /\ lastErr' = Null
    /\ overpassOutcome' = Null
    /\ tried' = <<Asked(OVERPASS_MIRRORS[1])>>
    /\ UNCHANGED <<sitesPc, sitesResult, network, cacheVars, libVars, appVars, workerVars>>

\* the mirror fetchOverpass waits for answers: it returns the JSON, goes on to
\* the next mirror, or throws
MirrorAnswer ==
    /\ mirror > 0
    /\ \E answer \in MirrorAnswers :
            LET turn == mirrorTurn(mirror, lastErr, answer)
            IN  /\ mirror' = turn.mirror
                /\ lastErr' = turn.lastErr
                /\ overpassOutcome' = turn.outcome
                /\ IF turn.mirror > 0
                   THEN /\ tried' = Append(Answered(tried, answer),
                                           Asked(OVERPASS_MIRRORS[turn.mirror]))
                        /\ network' = IF sitesPc = "idle" THEN network
                                      ELSE Append(network, OVERPASS_MIRRORS[turn.mirror])
                   ELSE /\ tried' = Answered(tried, answer)
                        /\ network' = network
    /\ UNCHANGED <<sitesPc, sitesResult, cacheVars, libVars, appVars, workerVars>>

\* fetchUSGSSites(center, radiusMi) up to its first await: a cached list is
\* returned, otherwise USGS is fetched
CallFetchUSGSSites ==
    /\ sitesPc = "idle"
    /\ mirror = 0
    /\ LET cached == cacheGet(SitesKey, storage, now)
       IN  /\ storage' = cached.storage
           /\ IF Truthy(cached.value)
              THEN /\ sitesResult' = cached.value
                   /\ network' = <<>>
                   /\ sitesPc' = "idle"
              ELSE /\ sitesResult' = Null
                   /\ network' = <<USGS_SITE_URL>>
                   /\ sitesPc' = "usgs"
    /\ UNCHANGED <<now, cacheCall, cacheRead, overpassVars, libVars, appVars, workerVars>>

\* USGS answers: its sites are cached and returned; with no site Overpass is
\* asked inside the try block; on a failure it is asked from the catch block
UsgsAnswer ==
    /\ sitesPc = "usgs"
    /\ \E answer \in UsgsAnswers, quotaExceeded \in BOOLEAN :
            IF answer.ok /\ usgsSites(answer.json) # <<>>
            THEN LET done == sitesReturn(usgsSites(answer.json), storage, now, quotaExceeded)
                 IN  /\ sitesResult' = done.result
                     /\ storage' = done.storage
                     /\ sitesPc' = "idle"
                     /\ UNCHANGED <<network, overpassVars>>
            ELSE /\ sitesPc' = IF answer.ok THEN "overpass" ELSE "fallback"
                 /\ startOverpass
                 /\ UNCHANGED <<sitesResult, storage>>
    /\ UNCHANGED <<now, cacheCall, cacheRead, libVars, appVars, workerVars>>

\* fetchUSGSSites goes on after its fetchOverpass has settled
SitesAfterOverpass ==
    /\ sitesPc \in {"overpass", "fallback"}
    /\ mirror = 0
    /\ \E quotaExceeded \in BOOLEAN :
            LET list == IF overpassOutcome.type = "returned"
                        THEN osmSites(overpassOutcome.value)
                        ELSE TypeError
            IN  IF list # TypeError
                THEN LET done == sitesReturn(list.items, storage, now, quotaExceeded)
                     IN  /\ sitesResult' = done.result
                         /\ storage' = done.storage
                         /\ sitesPc' = "idle"
                         /\ UNCHANGED <<network, overpassVars>>
                ELSE IF sitesPc = "overpass"
                THEN /\ sitesPc' = "fallback"
                     /\ startOverpass
                     /\ UNCHANGED <<sitesResult, storage>>
                ELSE LET done == sitesGiveUp(storage, now)
                     IN  /\ sitesResult' = done.result
                         /\ storage' = done.storage
                         /\ sitesPc' = "idle"
                         /\ UNCHANGED <<network, overpassVars>>
    /\ UNCHANGED <<now, cacheCall, cacheRead, libVars, appVars, workerVars>>

----------------------------------------------------------------------------
(* App: location, selection, and the weather and hydrology effect *)

\* the most getCurrentPosition requests, and the most geocodePlace calls,
\* that wait at a time
MaxRequests == 1

\* the most runs of the weather effect that wait at a time
MaxInFlight == 2

Place(lat, lon) == [type |-> "object", lat |-> Whole(lat), lon |-> Whole(lon)]

\* the fixes the browser may report, the place a search finds, the point
\* clicked on the map
GeoFixes == {Place(40, -86), Place(41, -86)}

PlacesFound == {Place(43, -116)}

MapPoints == {Place(43, -116)}

\* the dates of the date selector
Dates == {Text("2025-06-01T12:00:00.000Z"), Text("2025-06-02T12:00:00.000Z")}

Gauge ==
    Site(Text("03339000"), Text("LAKE LEMON"), Whole(41), Whole(-86), Text("Lake"),
         Text("USGS"))

\* what fetchUSGSSites may resolve to
SiteLists == {<<>>, <<Gauge>>}

\* syntheticFromCenter, and the object the refetch effect builds
syntheticFromCenter(c) ==
    IF ~Truthy(c) THEN Null
    ELSE Site(Text("center"), Text("Current Location"), c.lat, c.lon, Text("Water"),
              Text("CENTER"))

\* what fetchWeather(lat, lon, dateISO) resolves to, from the network or from
\* the cache entry of the same key: the forecast of that place and date
Weather(lat, lon, date) == [type |-> "object", lat |-> lat, lon |-> lon, date |-> date]

\* what fetchUSGSConditions(siteId) resolves to: the readings of that site
Hydrology(id) == [type |-> "object", site |-> id]

\* the effect "init from browser geolocation", setting the center from every fix
centerAfterEveryFix(p, c) == IF Truthy(p) THEN p ELSE c

\* the effect "init from browser geolocation": if (pos && !center) setCenter(pos)
centerAfter(p, c) == IF Truthy(p) /\ ~Truthy(c) THEN p ELSE c

\* sites.find((x) => x.id === selectedSiteId)
find(list, id) ==
    LET hits == SelectSeq(list, LAMBDA x : x.id = id)
    IN  IF hits = <<>> THEN Undefined ELSE Head(hits)

\* siteInfo after the refetch effect (when the center was set) and the effect
\* "keep siteInfo in sync": the later setSiteInfo of a commit wins
siteInfoAfter(centerWasSet, c, selected, list, info) ==
    LET refetched == IF centerWasSet /\ Truthy(c) THEN syntheticFromCenter(c) ELSE info
    IN  IF ~Truthy(c) THEN refetched
        ELSE IF selected = Text("center") THEN syntheticFromCenter(c)
        ELSE IF Truthy(find(list, selected)) THEN find(list, selected)
        ELSE refetched

\* the dependencies of the weather effect
weatherDeps(info, date) ==
    IF Truthy(info) THEN <<info.id, info.lat, info.lon, info.source, date>>
    ELSE <<Undefined, Undefined, Undefined, Undefined, date>>

Run(info, date, stage) == [site |-> info, date |-> date, stage |-> stage]

\* a commit and the effects it runs: the handler has set pos, the center
\* (null when it set none), the selection, the sites and the date; pendingSites
\* and pendingWx are the waiting runs the handler leaves
Commit(p, centerSet, selected, list, date, pendingSites, pendingWx) ==
    LET c == centerAfter(p, IF Truthy(centerSet) THEN centerSet ELSE center)
        centerWasSet == Truthy(centerSet) \/ c # center
        info == siteInfoAfter(centerWasSet, c, selected, list, siteInfo)
        weatherRuns == /\ Truthy(info)
                       /\ Truthy(date)
                       /\ weatherDeps(info, date) # weatherDeps(siteInfo, dateIso)
    IN  /\ pos' = p
        /\ center' = c
        /\ selectedSiteId' = selected
        /\ sites' = list
        /\ dateIso' = date
        /\ siteInfo' = info
        /\ sitesInFlight' = IF centerWasSet THEN pendingSites \cup {c} ELSE pendingSites
        /\ wxInFlight' = IF weatherRuns THEN pendingWx \cup {Run(info, date, "weather")}
                         ELSE pendingWx
        /\ Cardinality(wxInFlight') <= MaxInFlight

\* "Use Current Location": get() asks the browser for a fix
PressUseCurrentLocation ==
    /\ geoPending < MaxRequests
    /\ geoPending' = geoPending + 1
    /\ UNCHANGED <<pos, findPending, center, selectedSiteId, siteInfo, sites, dateIso,
                   wx, hydro, sitesInFlight, wxInFlight, cacheVars, sitesVars, libVars, workerVars>>

\* the browser reports a fix: setPos, and the effects of the commit
GeoFix ==
    /\ geoPending > 0
    /\ geoPending' = geoPending - 1
    /\ \E p \in GeoFixes :
            Commit(p, Null, selectedSiteId, sites, dateIso, sitesInFlight, wxInFlight)
    /\ UNCHANGED <<findPending, wx, hydro, cacheVars, sitesVars, libVars, workerVars>>

\* the browser reports an error: setErr
GeoError ==
    /\ geoPending > 0
    /\ geoPending' = geoPending - 1
    /\ UNCHANGED <<pos, findPending, center, selectedSiteId, siteInfo, sites, dateIso,
                   wx, hydro, sitesInFlight, wxInFlight, cacheVars, sitesVars, libVars, workerVars>>

\* "Find": handleFindPlace up to await geocodePlace(q)
FindPlace ==
    /\ findPending < MaxRequests
    /\ findPending' = findPending + 1
    /\ UNCHANGED <<pos, geoPending, center, selectedSiteId, siteInfo, sites, dateIso,
                   wx, hydro, sitesInFlight, wxInFlight, cacheVars, sitesVars, libVars, workerVars>>

\* geocodePlace found the place: setCenter(ll); setSelectedSiteId("center")
PlaceFound ==
    /\ findPending > 0
    /\ findPending' = findPending - 1
    /\ \E ll \in PlacesFound :
            Commit(pos, ll, Text("center"), sites, dateIso, sitesInFlight, wxInFlight)
    /\ UNCHANGED <<geoPending, wx, hydro, cacheVars, sitesVars, libVars, workerVars>>

\* geocodePlace found nothing, or threw: setGeoError
PlaceNotFound ==
    /\ findPending > 0
    /\ findPending' = findPending - 1
    /\ UNCHANGED <<pos, geoPending, center, selectedSiteId, siteInfo, sites, dateIso,
                   wx, hydro, sitesInFlight, wxInFlight, cacheVars, sitesVars, libVars, workerVars>>

\* a click on the map, which is shown once a center is set:
\* setCenter(pt); setSelectedSiteId("center")
MapClick ==
    /\ Truthy(center)
    /\ \E pt \in MapPoints :
            Commit(pos, pt, Text("center"), sites, dateIso, sitesInFlight, wxInFlight)
    /\ UNCHANGED <<geoVars, wx, hydro, cacheVars, sitesVars, libVars, workerVars>>

\* the water body selector: "Current Location" or one of the sites
SelectSite ==
    /\ \E id \in {Text("center")} \cup {sites[i].id : i \in 1..Len(sites)} :
            Commit(pos, Null, id, sites, dateIso, sitesInFlight, wxInFlight)
    /\ UNCHANGED <<geoVars, wx, hydro, cacheVars, sitesVars, libVars, workerVars>>

\* the date selector: setDateIso
SelectDate ==
    /\ \E date \in Dates :
            Commit(pos, Null, selectedSiteId, sites, date, sitesInFlight, wxInFlight)
    /\ UNCHANGED <<geoVars, wx, hydro, cacheVars, sitesVars, libVars, workerVars>>

\* the fetchUSGSSites of a run of the refetch effect resolves: setSites(s)
SitesSettle ==
    /\ \E c \in sitesInFlight, list \in SiteLists :
            Commit(pos, Null, selectedSiteId, list, dateIso, sitesInFlight \ {c},
                   wxInFlight)
    /\ UNCHANGED <<geoVars, wx, hydro, cacheVars, sitesVars, libVars, workerVars>>

\* the fetchWeather of a run of the weather effect resolves: setWx(wxData),
\* then fetchUSGSConditions for a USGS site and setHydro(null) for any other
WeatherSettles ==
    /\ \E run \in wxInFlight :
            /\ run.stage = "weather"
            /\ wx' = Weather(run.site.lat, run.site.lon, run.date)
            /\ IF run.site.source = Text("USGS")
               THEN /\ wxInFlight' = (wxInFlight \ {run})
                                        \cup {Run(run.site, run.date, "hydrology")}
                    /\ hydro' = hydro
               ELSE /\ wxInFlight' = wxInFlight \ {run}
                    /\ hydro' = Null
    /\ UNCHANGED <<geoVars, center, selectedSiteId, siteInfo, sites, dateIso,
                   sitesInFlight, cacheVars, sitesVars, libVars, workerVars>>

\* the fetchUSGSConditions of a run of the weather effect resolves: setHydro(h)
HydrologySettles ==
    /\ \E run \in wxInFlight :
            /\ run.stage = "hydrology"
            /\ hydro' = Hydrology(run.site.id)
            /\ wxInFlight' = wxInFlight \ {run}
    /\ UNCHANGED <<geoVars, center, selectedSiteId, siteInfo, sites, dateIso, wx,
                   sitesInFlight, cacheVars, sitesVars, libVars, workerVars>>

\* fetchWeather or fetchUSGSConditions rejects (fetch or r.json() failed): the
\* run of the effect ends there
FetchRejects ==
    /\ \E run \in wxInFlight : wxInFlight' = wxInFlight \ {run}
    /\ UNCHANGED <<geoVars, center, selectedSiteId, siteInfo, sites, dateIso, wx, hydro,
                   sitesInFlight, cacheVars, sitesVars, libVars, workerVars>>

----------------------------------------------------------------------------
(* The service worker: its fetch listener *)

\* the most fetch events of a run
MaxEvents == 3

Response(status, body) == [type |-> "object", status |-> status, body |-> body]

Request(url, origin, method) == [url |-> url, origin |-> origin, method |-> method]

\* a script of the application, the weather forecast, an Overpass query
RequestInputs ==
    {Request("./assets/index.js", "same", "GET"),
     Request("https://api.open-meteo.com/v1/forecast", "cross", "GET"),
     Request("https://overpass-api.de/api/interpreter", "cross", "POST")}

Urls == {r.url : r \in RequestInputs}

\* what the network may answer: a fresh copy, an error page, an opaque response
NetworkResponses ==
    {Response(200, "fresh"), Response(404, "not found"), Response(0, "opaque")}

\* caches.match(e.request): only a GET request matches an entry
match(cache, request) ==
    IF request.method = "GET" /\ Truthy(cache[request.url]) THEN cache[request.url]
    ELSE Undefined

\* the test of the cross-origin branch, storing every response
crossStoresAny(networkRes) == Truthy(networkRes)

\* networkRes && networkRes.status === 200
crossStores(networkRes) == Truthy(networkRes) /\ networkRes.status = 200

\* whether the listener calls c.put for the response of the network
stores(request, networkRes) ==
    IF request.origin = "same" THEN TRUE ELSE crossStores(networkRes)

\* an event of the listener: the request, what caches.match gave, whether
\* fetch was called, where the event stands, the response of the network,
\* what respondWith gave the page (null while it waits)
Event(request, cacheRes, fetched, stage, networkRes, delivered) ==
    [request |-> request, cacheRes |-> cacheRes, fetched |-> fetched, stage |-> stage,
     networkRes |-> networkRes, delivered |-> delivered]

\* what the page gets when the promise of respondWith rejects or gives no response
NetworkError == [type |-> "NetworkError"]

\* a fetch event, up to the answer of caches.match: a same-origin hit is
\* delivered and nothing is fetched; otherwise fetch is called, and a
\* cross-origin hit is delivered at once
FetchEvent ==
    /\ Len(swEvents) < MaxEvents
    /\ \E request \in RequestInputs :
            LET cacheRes == match(swCache, request)
            IN  swEvents' = Append(swEvents,
                    IF request.origin = "same" /\ Truthy(cacheRes)
                    THEN Event(request, cacheRes, FALSE, "done", Null, cacheRes)
                    ELSE Event(request, cacheRes, TRUE, "fetching", Null,
                               IF Truthy(cacheRes) THEN cacheRes ELSE Null))
    /\ UNCHANGED <<swCache, cacheVars, sitesVars, appVars, libVars>>

\* the network answers an event: the response is delivered unless the cached
\* one was, and c.put is called for it when the branch stores it
NetworkAnswers ==
    /\ \E i \in 1..Len(swEvents), networkRes \in NetworkResponses :
            /\ swEvents[i].stage = "fetching"
            /\ swEvents' = [swEvents EXCEPT ![i] =
                    Event(@.request, @.cacheRes, TRUE,
                          IF stores(@.request, networkRes) THEN "putting" ELSE "done",
                          networkRes,
                          IF Truthy(@.delivered) THEN @.delivered ELSE networkRes)]
    /\ UNCHANGED <<swCache, cacheVars, sitesVars, appVars, libVars>>

\* the fetch of an event rejects: the cross-origin branch falls back to the
\* cached response, the same-origin branch rejects
NetworkFails ==
    /\ \E i \in 1..Len(swEvents) :
            /\ swEvents[i].stage = "fetching"
            /\ swEvents' = [swEvents EXCEPT ![i] =
                    Event(@.request, @.cacheRes, TRUE, "done", Null,
                          IF Truthy(@.delivered) THEN @.delivered
                          ELSE IF @.request.origin = "cross" /\ Truthy(@.cacheRes)
                          THEN @.cacheRes
                          ELSE NetworkError)]
    /\ UNCHANGED <<swCache, cacheVars, sitesVars, appVars, libVars>>

\* caches.open(CACHE_NAME).then(c => c.put(e.request, copy)) settles: the copy
\* is stored; put rejects for a request that is not a GET
PutSettles ==
    /\ \E i \in 1..Len(swEvents) :
            /\ swEvents[i].stage = "putting"
            /\ swEvents' = [swEvents EXCEPT ![i].stage = "done"]
            /\ swCache' = IF swEvents[i].request.method = "GET"
                          THEN [swCache EXCEPT ![swEvents[i].request.url] =
                                    swEvents[i].networkRes]
                          ELSE swCache
    /\ UNCHANGED <<cacheVars, sitesVars, appVars, libVars>>

----------------------------------------------------------------------------
(* The initial states and the specifications *)

InitBand ==
    /\ name = Undefined
    /\ band = "warm"

InitWindows ==
    /\ sunriseTs = Null
    /\ sunsetTs = Null
    /\ hourly = Undefined
    /\ scored = <<>>
    /\ windows = <<>>

InitGear == gear = Null

InitCache ==
    /\ now = 1
    /\ storage = [k \in StorageKeys |-> Null]
    /\ cacheCall = [key \in CacheKeys |-> Null]
    /\ cacheRead = Null

InitSites ==
    /\ sitesPc = "idle"
    /\ sitesResult = Null
    /\ network = <<>>
    /\ mirror = 0
    /\ lastErr = Null
    /\ tried = <<>>
    /\ overpassOutcome = Null

InitLib == InitScore /\ InitBand /\ InitWindows /\ InitGear

\* the state of App at its first render
InitApp ==
    /\ pos = Null
    /\ geoPending = 0
    /\ findPending = 0
    /\ center = Null
    /\ selectedSiteId = Text("center")
    /\ siteInfo = Null
    /\ sites = <<>>
    /\ dateIso \in {Text("2025-06-01T12:00:00.000Z")}
    /\ wx = Null
    /\ hydro = Null
    /\ sitesInFlight = {}
    /\ wxInFlight = {}

\* the service worker with an empty cache
InitWorker ==
    /\ swCache = [url \in Urls |-> Undefined]
    /\ swEvents = <<>>

InitNet == InitSites /\ InitApp /\ InitWorker

Init == InitLib /\ InitCache /\ InitNet

InitCacheFound ==
    /\ InitLib
    /\ InitNet
    /\ now = 1
    /\ storage \in [StorageKeys -> FoundRaw]
    /\ cacheCall = [key \in CacheKeys |-> Null]
    /\ cacheRead = Null

Next == ScoreSpecies \/ ScoreWaterType \/ ScoreConditions \/ ScoreReading

Spec == Init /\ [][Next]_vars

NextBand == BandOfNothing \/ BandOfLonger

SpecBand == Init /\ [][NextBand]_vars

NextZero == ScoreSpecies \/ ScoreWaterType \/ ScoreConditions \/ ScoreMeasuredZero

SpecZero == Init /\ [][NextZero]_vars

NextGear == GearSpecies \/ GearWaterType \/ GearConditions \/ GearReading

SpecGear == Init /\ [][NextGear]_vars

NextWindows == WindowsOfNothing \/ WindowsOfLonger \/ WindowsOfSun

SpecWindows == Init /\ [][NextWindows]_vars

NextCache == CacheSet \/ CacheGet \/ Tick

SpecCache == InitCacheFound /\ [][NextCache]_vars

\* what an earlier visit may have left under the key of the sites: nothing,
\* text that is not JSON, or a list that expires at hour 2
FoundSites ==
    {Null, Text("not json"),
     JSONstringify(Array(<<Site(Text("03339000"), Text("LAKE LEMON"), Whole(41),
                                Whole(-86), Text("Lake"), Text("USGS"))>>), Whole(2))}

InitSitesFound ==
    /\ InitLib
    /\ InitNet
    /\ now = 1
    /\ storage \in {[k \in StorageKeys |-> IF k = fp(SitesKey) THEN raw ELSE Null] :
                        raw \in FoundSites}
    /\ cacheCall = [key \in CacheKeys |-> Null]
    /\ cacheRead = Null

NextSites ==
    CallFetchOverpass \/ MirrorAnswer \/ CallFetchUSGSSites \/ UsgsAnswer
        \/ SitesAfterOverpass \/ Tick

SpecSites == InitSitesFound /\ [][NextSites]_vars

NextApp ==
    PressUseCurrentLocation \/ GeoFix \/ GeoError \/ FindPlace \/ PlaceFound
        \/ PlaceNotFound \/ MapClick \/ SelectSite \/ SelectDate \/ SitesSettle
        \/ WeatherSettles \/ HydrologySettles \/ FetchRejects

SpecApp == Init /\ [][NextApp]_vars

\* the cache as an earlier visit may have left it: each GET URL stored or not
InitWorkerFound ==
    /\ InitLib
    /\ InitCache
    /\ InitSites
    /\ InitApp
    /\ swCache \in [Urls -> {Undefined, Response(200, "stored")}]
    /\ \A r \in RequestInputs : r.method # "GET" => swCache[r.url] = Undefined
    /\ swEvents = <<>>

NextWorker == FetchEvent \/ NetworkAnswers \/ NetworkFails \/ PutSettles

SpecWorker == InitWorkerFound /\ [][NextWorker]_vars

\* App with the date left alone
NextGeo ==
    PressUseCurrentLocation \/ GeoFix \/ GeoError \/ FindPlace \/ PlaceFound
        \/ PlaceNotFound \/ MapClick \/ SelectSite \/ SitesSettle
        \/ WeatherSettles \/ HydrologySettles \/ FetchRejects

SpecGeo == Init /\ [][NextGeo]_vars

----------------------------------------------------------------------------
(* The claims about successScore *)

\* what the claims say of each species: its band's ideal, low and high water
\* temperature, its cloud target, its ideal turbidity and turbidity window
ClaimBand(sp) ==
    IF sp = RainbowTrout
    THEN [ideal |-> 54, low |-> 40, high |-> 62, cloud |-> 60, turbidity |-> 5, window |-> 10]
    ELSE IF sp = WalleyeName
    THEN [ideal |-> 62, low |-> 50, high |-> 75, cloud |-> 40, turbidity |-> 15, window |-> 25]
    ELSE [ideal |-> 68, low |-> 55, high |-> 82, cloud |-> 40, turbidity |-> 15, window |-> 25]

\* the last call had a species and a conditions object
Scored == Truthy(species) /\ derived.type = "object"

IsInteger(v) == v.type = "number" /\ v.n % NumScale = 0

\* C1: a non-null result of successScore is an integer between 0 and 100
C1_ScoreInRange ==
    score # Null => IsInteger(score) /\ 0 <= score.n /\ score.n <= 100 * NumScale

\* a call whose sum of components exceeds 100 and is clamped
C1_Witness ==
    /\ Scored
    /\ parts.raw > Points(100)
    /\ score = Whole(100)

\* C2: successScore returns null (and does not throw) whenever the species or
\* the conditions object is null or undefined, whatever the other arguments
C2_NullWhenAbsent ==
    (species \in {Null, Undefined} \/ derived \in {Null, Undefined}) => score = Null

\* a call with a species and a water type but no conditions object
C2_Witness ==
    /\ species = LargemouthBass
    /\ waterType = Lake
    /\ derived = Null
    /\ score = Null

\* C3: with a non-empty species string and a conditions object, whatever the
\* water type and whichever readings are unknown or extreme, successScore
\* returns a non-null integer and does not throw
C3_NullOnlyWhenAbsent ==
    (species.type = "string" /\ species.chars # <<>> /\ derived.type = "object")
        => IsInteger(score)

\* a call with a null water type, unknown readings and extreme known readings
C3_Witness ==
    /\ species = LargemouthBass
    /\ waterType = Null
    /\ derived = Conditions(NaN, Whole(40), NaN, NaN, Whole(100))
    /\ IsInteger(score)

\* C4: when all five readings are unknown the score is exactly 70, for every
\* non-empty species and every water type
C4_AllUnknownIs70 ==
    (Scored /\ \A f \in ReadingNames : derived[f] \in Unknowns) => score = Whole(70)

\* successScore("Largemouth Bass", "Lake", {all five null})
C4_Witness ==
    /\ species = LargemouthBass
    /\ waterType = Lake
    /\ derived = NoReadings(Null)
    /\ score = Whole(70)

\* every reading at the ideal of the species' band (wind at 3 or at 6 mph)
IdealConditions ==
    /\ Scored
    /\ derived.waterTempF = Whole(ClaimBand(species).ideal)
    /\ derived.windMph \in {Whole(3), Whole(6)}
    /\ derived.cloudPct = Whole(ClaimBand(species).cloud)
    /\ derived.barometerInHg = Num(2995)
    /\ derived.turbidityFnu = Whole(ClaimBand(species).turbidity)

\* C5: with every reading at the ideal of the species' band the score is exactly 100
C5_IdealSaturates == IdealConditions => score = Whole(100)

\* successScore("Rainbow Trout", "Stream", {54, 6, 60, 29.95, 5})
C5_Witness ==
    /\ species = RainbowTrout
    /\ waterType = Stream
    /\ derived = Conditions(Whole(54), Whole(6), Whole(60), Num(2995), Whole(5))
    /\ score = Whole(100)

\* the temperature is a shoulder width or more from the ideal, and wind,
\* pressure and turbidity are at or beyond the end of their decay windows
AdverseConditions ==
    /\ Scored
    /\ NumberIsFinite(derived.waterTempF)
    /\ LET b == ClaimBand(species)
           t == derived.waterTempF.n
       IN  \/ t <= b.ideal * NumScale - Max(8, b.ideal - b.low) * NumScale
           \/ t >= b.ideal * NumScale + Max(8, b.high - b.ideal) * NumScale
    /\ NumberIsFinite(derived.windMph)
    /\ Abs(derived.windMph.n - 3 * NumScale) >= 10 * NumScale
    /\ Abs(derived.windMph.n - 6 * NumScale) >= 10 * NumScale
    /\ NumberIsFinite(derived.barometerInHg)
    /\ Abs(derived.barometerInHg.n - 2995) >= 35
    /\ NumberIsFinite(derived.turbidityFnu)
    /\ Abs(derived.turbidityFnu.n - ClaimBand(species).turbidity * NumScale)
           >= ClaimBand(species).window * NumScale

\* C6: under adverse conditions the score is at most 35 plus the cloud
\* component, and below 45
C6_AdverseIsLow ==
    AdverseConditions =>
        /\ parts.raw <= Points(35) + parts.c
        /\ score.n < 45 * NumScale

\* successScore("Largemouth Bass", "Lake", {30, 40, 0, 32, 100})
C6_Witness ==
    /\ species = LargemouthBass
    /\ waterType = Lake
    /\ derived = Conditions(Whole(30), Whole(40), Whole(0), Num(3200), Whole(100))
    /\ score = Whole(37)

\* the next call differs from this one only in a water temperature that is on
\* the same side of the ideal and at least as far from it
TempMovesAway ==
    /\ Scored
    /\ species' = species
    /\ waterType' = waterType
    /\ derived'.type = "object"
    /\ \A f \in ReadingNames \ {"waterTempF"} : derived'[f] = derived[f]
    /\ NumberIsFinite(derived.waterTempF)
    /\ NumberIsFinite(derived'.waterTempF)
    /\ LET ideal == ClaimBand(species).ideal * NumScale
           t1 == derived.waterTempF.n
           t2 == derived'.waterTempF.n
       IN  (ideal <= t1 /\ t1 <= t2) \/ (t2 <= t1 /\ t1 <= ideal)

\* C7: as the water temperature moves away from the ideal on one side, the other
\* readings held fixed, neither the temperature component nor the score increases
C7_TempMonotone ==
    [][TempMovesAway => (parts'.t <= parts.t /\ score'.n <= score.n)]_vars

\* a call with a temperature half a shoulder above the cold band's ideal
C7_Witness ==
    /\ species = RainbowTrout
    /\ derived.type = "object"
    /\ derived.waterTempF = Whole(58)
    /\ parts.t = Points(60)

\* what the claims say a component is worth for a known reading:
\* max * clamp(1 - |reading - target| / window, 0, 1), in points over PointScale
\* (reading, target and window in hundredths)
ClaimComponent(max, reading, target, window) ==
    LET away == Abs(reading - target)
    IN  IF away >= window THEN 0
        ELSE ((max * PointScale) \div window) * (window - away)

\* the wind sweet spot of a water type: 3 mph on a river, 6 mph on a lake or
\* on unspecified water; for "Stream", which C15 is about, either
ClaimSweet(wt) ==
    IF wt = River THEN {3} ELSE IF wt = Stream THEN {3, 6} ELSE {6}

\* C20: for a known reading, wind is worth 10, cloud 8, pressure 7 and turbidity
\* 5 points times clamp(1 - |reading - target| / window, 0, 1), with the targets
\* and windows of the species' band, and temperature is worth 35 plus 50 times
\* that fraction over a window of max(8, shoulder)
C20_ComponentFormulas ==
    Scored =>
        LET b == ClaimBand(species)
            d == derived
        IN  /\ NumberIsFinite(d.windMph) =>
                   \E sweet \in ClaimSweet(waterType) :
                       parts.w = ClaimComponent(10, d.windMph.n, sweet * NumScale,
                                                10 * NumScale)
            /\ NumberIsFinite(d.cloudPct) =>
                   parts.c = ClaimComponent(8, d.cloudPct.n, b.cloud * NumScale,
                                            50 * NumScale)
            /\ NumberIsFinite(d.barometerInHg) =>
                   parts.p = ClaimComponent(7, d.barometerInHg.n, 2995, 35)
            /\ NumberIsFinite(d.turbidityFnu) =>
                   parts.u = ClaimComponent(5, d.turbidityFnu.n, b.turbidity * NumScale,
                                            b.window * NumScale)
            /\ NumberIsFinite(d.waterTempF) =>
                   LET shoulder == IF d.waterTempF.n <= b.ideal * NumScale
                                   THEN b.ideal - b.low ELSE b.high - b.ideal
                   IN  parts.t = Points(35)
                           + ClaimComponent(50, d.waterTempF.n, b.ideal * NumScale,
                                            Max(8, shoulder) * NumScale)

\* successScore("Rainbow Trout", "Lake", {58, 3, 40, 30.30, 0}): 60 + 7 + 4.8 + 0 + 2.5
C20_Witness ==
    /\ species = RainbowTrout
    /\ waterType = Lake
    /\ derived = Conditions(Whole(58), Whole(3), Whole(40), Num(3030), Whole(0))
    /\ parts.t = Points(60)
    /\ parts.w = Points(7)
    /\ parts.c = (48 * PointScale) \div 10
    /\ parts.p = Points(0)
    /\ parts.u = (25 * PointScale) \div 10

\* C21: an unknown reading contributes its fixed default (temperature 45, wind
\* 10, cloud 5, pressure 5, turbidity 5), and a measured 0 contributes something
\* else: for turbidity 2.5 points for a cold-band species and 2 for any other
C21_UnknownIsNotZero ==
    Scored =>
        /\ derived.waterTempF \in Unknowns => parts.t = Points(45)
        /\ derived.windMph \in Unknowns => parts.w = Points(10)
        /\ derived.cloudPct \in Unknowns => parts.c = Points(5)
        /\ derived.barometerInHg \in Unknowns => parts.p = Points(5)
        /\ derived.turbidityFnu \in Unknowns => parts.u = Points(5)
        /\ derived.waterTempF = Whole(0) => parts.t # Points(45)
        /\ derived.windMph = Whole(0) => parts.w # Points(10)
        /\ derived.cloudPct = Whole(0) => parts.c # Points(5)
        /\ derived.barometerInHg = Whole(0) => parts.p # Points(5)
        /\ derived.turbidityFnu = Whole(0) =>
               parts.u = IF species = RainbowTrout THEN (25 * PointScale) \div 10
                         ELSE Points(2)

\* a cold-band species with a measured turbidity of 0 and an unknown wind
C21_Witness ==
    /\ species = RainbowTrout
    /\ derived.type = "object"
    /\ derived.turbidityFnu = Whole(0)
    /\ derived.windMph = Undefined
    /\ parts.u = (25 * PointScale) \div 10
    /\ parts.w = Points(10)

\* C23: the sum of the five components is between 35 and 115, so that a
\* non-null score is between 35 and 100
C23_SumAtLeast35 ==
    Scored =>
        /\ Points(35) <= parts.raw
        /\ parts.raw <= Points(115)
        /\ 35 * NumScale <= score.n
        /\ score.n <= 100 * NumScale

\* successScore("Rainbow Trout", "Lake", {90, 40, 0, 32.00, 100}): every
\* component at its least
C23_Witness ==
    /\ species = RainbowTrout
    /\ waterType = Lake
    /\ derived = Conditions(Whole(90), Whole(40), Whole(0), Num(3200), Whole(100))
    /\ parts.raw = Points(35)
    /\ score = Whole(35)

----------------------------------------------------------------------------
(* The claims about bandForSpecies *)

ClaimColdWords ==
    {<<"t", "r", "o", "u", "t">>, <<"s", "a", "l", "m", "o", "n">>,
     <<"g", "r", "a", "y", "l", "i", "n", "g">>,
     <<"w", "h", "i", "t", "e", "f", "i", "s", "h">>,
     <<"s", "t", "e", "e", "l", "h", "e", "a", "d">>,
     <<"k", "o", "k", "a", "n", "e", "e">>}

ClaimCoolWords ==
    {<<"w", "a", "l", "l", "e", "y", "e">>, <<"s", "a", "u", "g", "e", "r">>,
     <<"p", "i", "k", "e">>, <<"m", "u", "s", "k">>,
     <<"p", "i", "c", "k", "e", "r", "e", "l">>}

\* the same character, or the upper and lower case of one letter
SameLetter(a, b) ==
    \/ a = b
    \/ \E j \in 1..Len(UpperChars) : {a, b} = {UpperChars[j], LowerChars[j]}

\* word occurs in chars, the case of letters ignored
ContainsIgnoringCase(chars, word) ==
    \E i \in 0..(Len(chars) - Len(word)) :
        \A k \in 1..Len(word) : SameLetter(chars[i + k], word[k])

\* C8: the band is cold iff the name contains, in any case, one of trout,
\* salmon, grayling, whitefish, steelhead, kokanee; else cool iff it contains
\* one of walleye, sauger, pike, musk, pickerel; else (absent, empty or any
\* other text) warm
C8_BandByKeyword ==
    LET chars == IF name.type = "string" THEN name.chars ELSE <<>>
        cold == \E w \in ClaimColdWords : ContainsIgnoringCase(chars, w)
        cool == \E w \in ClaimCoolWords : ContainsIgnoringCase(chars, w)
    IN  band = IF cold THEN "cold" ELSE IF cool THEN "cool" ELSE "warm"

\* bandForSpecies("rainbow trout (wild)") = "cold"
C8_Witness ==
    /\ name = Str(<<"r", "a", "i", "n", "b", "o", "w", " ", "t", "r", "o", "u", "t",
                    " ", "(", "w", "i", "l", "d", ")">>)
    /\ band = "cold"

----------------------------------------------------------------------------
(* The claims about bestWindows *)

\* the records bestWindows considers
Considered == IF hourly.type = "array" THEN sliceFirst(hourly.items, 24) ELSE <<>>

ReturnedTimes == {windows[i].time : i \in 1..Len(windows)}

\* C9: bestWindows returns at most 6 entries, each with an integer score of at
\* least 10
C9_AtMostSixWorthShowing ==
    /\ Len(windows) <= 6
    /\ \A i \in 1..Len(windows) :
          IsInteger(windows[i].score) /\ windows[i].score.n >= 10 * NumScale

\* a series with more than six hours that score 10 or more and an hour that
\* scores less, of which six are returned
C9_Witness ==
    /\ Len(windows) = 6
    /\ Cardinality({j \in 1..Len(Considered) :
          scoreHour(Considered[j], sunriseTs, sunsetTs).n >= 10 * NumScale}) > 6
    /\ \E j \in 1..Len(Considered) :
          scoreHour(Considered[j], sunriseTs, sunsetTs).n < 10 * NumScale

\* C10: the entries returned are hours of the considered records with their
\* scores, in order of non-increasing score, and every considered hour that
\* scores 10 or more and is not returned scores no more than any returned entry
C10_HighestFirst ==
    /\ \A i \in 1..Len(windows) : \E j \in 1..Len(Considered) :
          /\ windows[i].time = Considered[j].time
          /\ windows[i].score = scoreHour(Considered[j], sunriseTs, sunsetTs)
    /\ \A i \in 1..(Len(windows) - 1) : windows[i].score.n >= windows[i + 1].score.n
    /\ \A j \in 1..Len(Considered) :
          LET sc == scoreHour(Considered[j], sunriseTs, sunsetTs)
          IN  (sc.n >= 10 * NumScale /\ Considered[j].time \notin ReturnedTimes)
                  => \A i \in 1..Len(windows) : sc.n <= windows[i].score.n

\* six entries of more than one score are returned, and an hour that scores 10
\* or more but less than all of them is left out
C10_Witness ==
    /\ Len(windows) = 6
    /\ windows[1].score.n > windows[6].score.n
    /\ \E j \in 1..Len(Considered) :
          LET sc == scoreHour(Considered[j], sunriseTs, sunsetTs)
          IN  /\ sc.n >= 10 * NumScale
              /\ sc.n < windows[6].score.n
              /\ Considered[j].time \notin ReturnedTimes

\* the place in the input series of the considered record with this time
InputIndex(time) == CHOOSE j \in 1..Len(Considered) : Considered[j].time = time

\* C11: entries returned with equal scores are in the order of their records in
\* the input series, and a considered hour left out by the cut to six comes,
\* in the input series, after every returned entry of the same score
C11_TiesKeepInputOrder ==
    /\ \A i \in 1..Len(windows) : \A k \in 1..Len(windows) :
          (i < k /\ windows[i].score = windows[k].score)
              => InputIndex(windows[i].time) < InputIndex(windows[k].time)
    /\ \A i \in 1..Len(windows) : \A j \in 1..Len(scored) :
          (scored[j].time \notin ReturnedTimes /\ scored[j].score = windows[i].score)
              => InputIndex(windows[i].time) < j

\* the cut to six goes through a group of equal scores: the last two entries
\* returned and an hour left out score the same
C11_Witness ==
    /\ Len(windows) = 6
    /\ windows[5].score = windows[6].score
    /\ \E j \in 1..Len(scored) :
          /\ scored[j].time \notin ReturnedTimes
          /\ scored[j].score = windows[6].score

\* C12: bestWindows returns the empty sequence when the hourly series is empty,
\* null or undefined, whatever the sunrise and the sunset
C12_EmptySeriesGivesNone ==
    hourly \in {Null, Undefined, Array(<<>>)} => windows = <<>>

\* bestWindows({ sunriseTs: 6:30, sunsetTs: 20:30, hourly: [] })
C12_Witness ==
    /\ hourly = Array(<<>>)
    /\ sunriseTs = Whole(390)
    /\ sunsetTs = Whole(1230)
    /\ windows = <<>>

\* what the claim says an hour scores, its wind and cloud known: the wind term,
\* the cloud term and 8 for each of sunrise and sunset that is non-null and
\* within 90 minutes of the hour
ClaimHourScore(h, sunrise, sunset) ==
    LET w == h.windMph.n
        c == h.cloudPct.n
        t == h.time * MinutesPerHour * NumScale
        W == IF w <= 10 * NumScale THEN 10 * NumScale - Abs(w - 6 * NumScale) ELSE 0
        C == IF 30 * NumScale <= c /\ c <= 80 * NumScale THEN 5 * NumScale ELSE 2 * NumScale
        near(event) == event # Null /\ event.type = "number"
                          /\ Abs(t - event.n) <= 90 * NumScale
        B == (IF near(sunrise) THEN 8 * NumScale ELSE 0)
                + (IF near(sunset) THEN 8 * NumScale ELSE 0)
    IN  Whole(MathRound(Max(0, Min(100 * NumScale, W + C + B)), NumScale))

\* C18: every considered hour with a known wind and a known cloud cover scores
\* round(clamp(W + C + B, 0, 100)), where B counts 8 for each of sunrise and
\* sunset that is non-null and within 90 minutes of the hour
C18_HourScore ==
    \A j \in 1..Len(scored) :
        (NumberIsFinite(Considered[j].windMph) /\ NumberIsFinite(Considered[j].cloudPct))
            => scored[j].score = ClaimHourScore(Considered[j], sunriseTs, sunsetTs)

\* C19: the entries returned are of distinct records among the first 24 of the
\* series, and a call that differs from the last only in the records after the
\* first 24 returns what the last call returned
C19_FirstDayOnly ==
    [][/\ \A i \in 1..Len(windows') : \E j \in 1..Len(Considered') :
             windows'[i].time = Considered'[j].time
       /\ \A i \in 1..Len(windows') : \A k \in 1..Len(windows') :
             windows'[i].time = windows'[k].time => i = k
       /\ (/\ hourly.type = "array"
           /\ Len(hourly.items) >= 24
           /\ Considered' = Considered
           /\ sunriseTs' = sunriseTs
           /\ sunsetTs' = sunsetTs) => windows' = windows]_vars

\* a series of more than 24 hours whose 25th hour would outscore every entry
\* returned
C19_Witness ==
    /\ hourly.type = "array"
    /\ Len(hourly.items) > 24
    /\ Len(windows) = 6
    /\ scoreHour(hourly.items[25], sunriseTs, sunsetTs).n > windows[1].score.n

----------------------------------------------------------------------------
(* The claims about suggestGear *)

\* the characters of a name; none for a name that is absent
NameChars(v) == IF v.type = "string" THEN v.chars ELSE <<>>

\* the band of a species by the keywords of its name
ClaimBandOf(sp) ==
    IF \E w \in ClaimColdWords : ContainsIgnoringCase(NameChars(sp), w) THEN "cold"
    ELSE IF \E w \in ClaimCoolWords : ContainsIgnoringCase(NameChars(sp), w) THEN "cool"
    ELSE "warm"

ClaimPikeMusk(sp) ==
    \/ ContainsIgnoringCase(NameChars(sp), <<"p", "i", "k", "e">>)
    \/ ContainsIgnoringCase(NameChars(sp), <<"m", "u", "s", "k">>)

\* river-like water: the type contains "river" or "stream", in any case
ClaimRiverLike(wt) ==
    \/ ContainsIgnoringCase(NameChars(wt), <<"r", "i", "v", "e", "r">>)
    \/ ContainsIgnoringCase(NameChars(wt), <<"s", "t", "r", "e", "a", "m">>)

\* stained water: a known turbidity above 15 FNU
ClaimStained(d) ==
    /\ d.type = "object"
    /\ NumberIsFinite(d.turbidityFnu)
    /\ d.turbidityFnu.n > 15 * NumScale

ClaimRiverLocations ==
    <<Text("Current breaks"), Text("Eddy seams"), Text("Deep pools"),
      Text("Riffle tails at first/last light")>>

ClaimLakeLocations ==
    <<Text("Points & windblown banks"), Text("Weedlines"), Text("Drop-offs"),
      Text("Shallow flats (low light)")>>

\* C13: for a species whose name contains "pike" or "musk" in any case,
\* suggestGear returns the heavy rod, whatever the water type, the turbidity
\* and the band of the name
C13_PikeOverride ==
    (gear # Null /\ ClaimPikeMusk(species))
        => gear.rodAndLine = Text("Heavy rod, 30-60 lb braid + leader")

\* suggestGear("Pike or Trout", "River", { turbidityFnu: 100 }): a cold-band
\* name with a pike keyword, in stained water
C13_Witness ==
    /\ species = TypedPikeOrTrout
    /\ ClaimBandOf(species) = "cold"
    /\ waterType = River
    /\ ClaimStained(derived)
    /\ gear # Null
    /\ gear.rodAndLine = Text("Heavy rod, 30-60 lb braid + leader")

IsFilledText(x) == x.type = "text" /\ x.text # ""

IsFilledList(xs) == Len(xs) > 0 /\ \A i \in 1..Len(xs) : IsFilledText(xs[i])

\* C14: whatever the species, the water type and the conditions, suggestGear
\* returns non-empty strings for rodAndLine, flySetup and flyPresentation and
\* non-empty lists of non-empty strings for lures, flies and locations
C14_FullyPopulated ==
    gear # Null =>
        /\ gear.type = "object"
        /\ IsFilledText(gear.rodAndLine)
        /\ IsFilledText(gear.flySetup)
        /\ IsFilledText(gear.flyPresentation)
        /\ IsFilledList(gear.lures)
        /\ IsFilledList(gear.flies)
        /\ IsFilledList(gear.locations)

\* suggestGear(null, null, null)
C14_Witness ==
    /\ species = Null
    /\ waterType = Null
    /\ derived = Null
    /\ gear # Null
    /\ Len(gear.lures) = 4
    /\ Len(gear.flies) = 5

\* C15: a water type that contains "river" or "stream", in any case, gets the
\* river locations and a wind sweet spot of 3 mph; every other type gets the
\* lake locations and a sweet spot of 6 mph
C15_RiverOrStream ==
    gear # Null =>
        LET river == ClaimRiverLike(waterType)
        IN  /\ gear.locations = IF river THEN ClaimRiverLocations ELSE ClaimLakeLocations
            /\ (Scored /\ NumberIsFinite(derived.windMph)) =>
                   parts.w = ClaimComponent(10, derived.windMph.n,
                                            (IF river THEN 3 ELSE 6) * NumScale,
                                            10 * NumScale)

\* C16 as stated: a call whose species has the band and the pike/musk status of
\* the last call's, whose water type is river-like as the last call's was and
\* whose conditions are stained as the last call's were, returns the same gear
C16_OnlyBandRiverStained ==
    [][(/\ gear # Null
        /\ ClaimStained(derived') = ClaimStained(derived)
        /\ ClaimRiverLike(waterType') = ClaimRiverLike(waterType)
        /\ ClaimPikeMusk(species') = ClaimPikeMusk(species)
        /\ ClaimBandOf(species') = ClaimBandOf(species)) => gear' = gear]_vars

ClaimWalleyeSauger(sp) ==
    \/ ContainsIgnoringCase(NameChars(sp), <<"w", "a", "l", "l", "e", "y", "e">>)
    \/ ContainsIgnoringCase(NameChars(sp), <<"s", "a", "u", "g", "e", "r">>)

\* the class of a water type: it contains "river"; or "stream" but not "river";
\* or neither
ClaimWaterClass(wt) ==
    IF ContainsIgnoringCase(NameChars(wt), <<"r", "i", "v", "e", "r">>) THEN "river"
    ELSE IF ContainsIgnoringCase(NameChars(wt), <<"s", "t", "r", "e", "a", "m">>)
    THEN "stream"
    ELSE "lake"

\* C16, amended: a call whose species has the band, the pike/musk status and
\* the walleye/sauger status of the last call's, whose water type is of the
\* class of the last call's and whose conditions are stained as the last
\* call's were, returns the same gear; as every call may follow every other
\* through calls that change one argument, so do any two such calls
C16_OnlyFactsAndWalleye ==
    [][(/\ gear # Null
        /\ ClaimStained(derived') = ClaimStained(derived)
        /\ \/ waterType' = waterType
           \/ ClaimWaterClass(waterType') = ClaimWaterClass(waterType)
        /\ \/ species' = species
           \/ /\ ClaimPikeMusk(species') = ClaimPikeMusk(species)
              /\ ClaimWalleyeSauger(species') = ClaimWalleyeSauger(species)
              /\ ClaimBandOf(species') = ClaimBandOf(species)) => gear' = gear]_vars

\* suggestGear("Crappie", "Reservoir", { turbidityFnu: 15 }) returns what
\* suggestGear("Largemouth Bass", "Lake", null) returns
C16_Witness ==
    /\ species = Crappie
    /\ waterType = Reservoir
    /\ derived.type = "object"
    /\ derived.turbidityFnu = Whole(15)
    /\ gear = suggestGear(LargemouthBass, Lake, Null)

\* the next call has the species and the water type of this one, and stained
\* conditions where this one had conditions that were not
Staining ==
    /\ gear # Null
    /\ species' = species
    /\ waterType' = waterType
    /\ ~ClaimStained(derived)
    /\ ClaimStained(derived')

\* the places where two lists of the same length differ
Differences(xs, ys) == {i \in 1..Len(xs) : xs[i] # ys[i]}

\* C17 as stated: for every species and water type, staining the water changes
\* an entry of the lures and an entry of the flies
C17_StainedChangesBoth ==
    [][Staining => (gear'.lures # gear.lures /\ gear'.flies # gear.flies)]_vars

\* C17, amended: for a warm-band or cool-band species, staining the water
\* changes exactly one entry of the lures and exactly one of the flies; for a
\* cold-band species it changes neither list
C17_StainedChangesWarmAndCool ==
    [][Staining =>
          /\ Len(gear'.lures) = Len(gear.lures)
          /\ Len(gear'.flies) = Len(gear.flies)
          /\ IF ClaimBandOf(species) = "cold"
             THEN gear'.lures = gear.lures /\ gear'.flies = gear.flies
             ELSE /\ Cardinality(Differences(gear.lures, gear'.lures)) = 1
                  /\ Cardinality(Differences(gear.flies, gear'.flies)) = 1]_vars

\* suggestGear("Largemouth Bass", "Lake", { turbidityFnu: 100 }): the bright
\* variants of the spinnerbait and of the popper
C17_Witness ==
    /\ species = LargemouthBass
    /\ waterType = Lake
    /\ ClaimStained(derived)
    /\ gear # Null
    /\ gear.lures[1] = Text("Spinnerbait (chartreuse)")
    /\ gear.flies[1] = Text("Foam Popper (bright)")

\* the entry of a list that has a stained variant: none for the cold band
ClaimLureVariant(sp) ==
    IF ClaimBandOf(sp) = "warm"
    THEN [at |-> 1, natural |-> Text("Spinnerbait (white)"),
          bright |-> Text("Spinnerbait (chartreuse)")]
    ELSE [at |-> 2, natural |-> Text("Swimbait (natural)"),
          bright |-> Text("Vibrating blade bait")]

ClaimFlyVariant(sp) ==
    IF ClaimBandOf(sp) = "warm"
    THEN [at |-> 1, natural |-> Text("Foam Popper (natural)"),
          bright |-> Text("Foam Popper (bright)")]
    ELSE [at |-> 3, natural |-> Text("Flashabou Pike Fly (natural)"),
          bright |-> Text("Flashabou Pike Fly (bright)")]

\* C22: the lures and the flies have their stained variant iff the turbidity
\* is a known value above 15; at exactly 15, below it, unknown, or with no
\* conditions object, both have their natural variant
C22_StainedAbove15 ==
    (gear # Null /\ ClaimBandOf(species) # "cold") =>
        LET lure == ClaimLureVariant(species)
            fly == ClaimFlyVariant(species)
        IN  IF ClaimStained(derived)
            THEN gear.lures[lure.at] = lure.bright /\ gear.flies[fly.at] = fly.bright
            ELSE gear.lures[lure.at] = lure.natural /\ gear.flies[fly.at] = fly.natural

\* suggestGear("Walleye", "Lake", { turbidityFnu: 15 }): the threshold itself
C22_Witness ==
    /\ species = WalleyeName
    /\ waterType = Lake
    /\ derived.type = "object"
    /\ derived.turbidityFnu = Whole(15)
    /\ gear # Null
    /\ gear.lures[2] = Text("Swimbait (natural)")
    /\ gear.flies[3] = Text("Flashabou Pike Fly (natural)")

\* C24: for the empty species, successScore returns null whatever the
\* conditions, and suggestGear returns the warm-band recommendation, every
\* field filled
C24_EmptySpecies ==
    (gear # Null /\ species = Str(<<>>)) =>
        /\ score = Null
        /\ C14_FullyPopulated
        /\ gear.rodAndLine = Text("Medium spinning rod, 8-12 lb line")
        /\ gear.lures[2] = Text("Texas-rigged worm")
        /\ gear.flies[2] = Text("Clouser Minnow")
        /\ gear.flySetup = Text("5wt medium-fast, WF floating line, 9' leader")

\* successScore("", "Lake", { turbidityFnu: 100, ... }) and suggestGear of the same
C24_Witness ==
    /\ species = Str(<<>>)
    /\ waterType = Lake
    /\ derived.type = "object"
    /\ derived.turbidityFnu = Whole(100)
    /\ score = Null
    /\ gear # Null
    /\ gear.lures[1] = Text("Spinnerbait (chartreuse)")

----------------------------------------------------------------------------
(* The claims about the cache *)

\* this step is a cacheGet of key: of the steps of the cache, only a
\* cacheGet leaves the clock and the record of the cacheSet calls alone
ReadOf(key) ==
    /\ now' = now
    /\ cacheCall' = cacheCall
    /\ cacheRead' # Null
    /\ cacheRead'.key = key

\* the last cacheSet of key had a ttl above 0 and its time to live is over
ClaimExpired(key) ==
    /\ Truthy(cacheCall[key].ttlMs)
    /\ now * NumScale > cacheCall[key].at * NumScale + cacheCall[key].ttlMs.n

\* C25 as stated: after cacheSet(k, v, ttl) and no later cacheSet of k,
\* cacheGet(k) returns v up to and at time T + ttl and null after it, the
\* expired read removes the entry, an entry set with ttl absent or 0 never
\* expires, and before any cacheSet of k (the entry is missing or
\* unparsable) cacheGet(k) returns null
C25_TtlCache ==
    [][\A key \in CacheKeys :
          ReadOf(key) =>
              IF cacheCall[key] = Null THEN cacheRead'.value = Null
              ELSE IF ClaimExpired(key)
                   THEN cacheRead'.value = Null /\ storage'[fp(key)] = Null
                   ELSE cacheRead'.value = cacheCall[key].value]_vars

\* what the claim expects to read back of a value: NaN is stored as null
ClaimReadBack(v) == IF v = NaN THEN Null ELSE v

\* C25 amended: the same for a cacheSet whose setItem did not throw, with v
\* read back as JSON holds it (NaN as null); a cacheSet whose setItem threw
\* leaves the storage as it was
C25_TtlCacheStored ==
    [][\A key \in CacheKeys :
          /\ ReadOf(key) =>
                IF cacheCall[key] = Null
                THEN cacheRead'.value = Null /\ storage' = storage
                ELSE ~cacheCall[key].threw =>
                        IF ClaimExpired(key)
                        THEN cacheRead'.value = Null /\ storage'[fp(key)] = Null
                        ELSE /\ cacheRead'.value = ClaimReadBack(cacheCall[key].value)
                             /\ storage' = storage
          /\ (cacheCall'[key] # cacheCall[key] /\ cacheCall'[key].threw) =>
                storage' = storage]_vars

\* an expired read of a stored entry returned null and removed the entry
C25_Witness ==
    /\ cacheRead # Null
    /\ cacheCall[cacheRead.key] # Null
    /\ ~cacheCall[cacheRead.key].threw
    /\ cacheCall[cacheRead.key].value = Whole(7)
    /\ cacheCall[cacheRead.key].ttlMs = Whole(1)
    /\ now > cacheCall[cacheRead.key].at + 1
    /\ cacheRead.value = Null
    /\ storage[fp(cacheRead.key)] = Null

----------------------------------------------------------------------------
(* The claims about fetchOverpass and fetchUSGSSites *)

\* this step is the answer of a mirror to fetchOverpass
MirrorAnswered == mirror > 0 /\ mirror' # mirror

\* C26: the mirrors are fetched in list order; the first answer that is OK and
\* parses is returned and no later mirror is fetched; a failed mirror is
\* followed by the next one; fetchOverpass throws only when every mirror has
\* failed, and throws the error of the last one
C26_MirrorsInOrder ==
    [][/\ \A i \in 1..Len(tried') :
            /\ tried'[i].url = OVERPASS_MIRRORS[i]
            /\ i < Len(tried') => ~tried'[i].answer.ok
       /\ MirrorAnswered =>
            LET answer == tried'[mirror].answer
            IN  /\ Len(tried) = mirror
                /\ answer.ok \/ answer.kind # "pending"
                /\ IF answer.ok
                   THEN /\ overpassOutcome' = Returned(answer.json)
                        /\ Len(tried') = mirror
                        /\ mirror' = 0
                   ELSE IF mirror < Len(OVERPASS_MIRRORS)
                   THEN /\ overpassOutcome' = Null
                        /\ mirror' = mirror + 1
                        /\ Len(tried') = mirror + 1
                        /\ tried'[mirror + 1].answer.kind = "pending"
                   ELSE /\ overpassOutcome' =
                               Threw(Failure(OVERPASS_MIRRORS[mirror], answer.kind))
                        /\ mirror' = 0
                        /\ Len(tried') = Len(OVERPASS_MIRRORS)]_vars

\* both mirrors failed, each in its own way, and the error of the second was thrown
C26_Witness ==
    /\ mirror = 0
    /\ Len(tried) = 2
    /\ tried[1].answer = Failed("network")
    /\ tried[2].answer = Failed("status")
    /\ overpassOutcome = Threw(Failure(OVERPASS_MIRRORS[2], "status"))

\* the cache holds a list for the sites that has not expired
ClaimCached(store, t) ==
    /\ store[fp(SitesKey)].type = "json"
    /\ store[fp(SitesKey)].exp # Null => t * NumScale <= store[fp(SitesKey)].exp.n

\* this step is a call of fetchUSGSSites
SitesCalled == sitesPc = "idle" /\ mirror = 0 /\ mirror' = 0 /\ now' = now

\* the fetchOverpass of the fallback has failed: it threw, or its answer was
\* the JSON null
ClaimOverpassFailed ==
    overpassOutcome.type = "threw" \/ overpassOutcome.value = Null

\* C27: fetchUSGSSites always resolves to a list; on a cache hit it returns
\* the cached list and fetches nothing; when USGS fails or has no site
\* Overpass is asked; when every source has failed the result is the empty
\* list and the storage is left as it was, without a usable entry, so the next
\* call fetches USGS again; the storage is written only by a call that
\* returns the list it wrote
C27_SitesFallback ==
    [][/\ (sitesPc' = "idle" /\ sitesResult' # Null) => sitesResult'.type = "array"
       /\ SitesCalled =>
            IF ClaimCached(storage, now)
            THEN /\ sitesResult' = storage[fp(SitesKey)].v
                 /\ network' = <<>>
                 /\ sitesPc' = "idle"
                 /\ storage' = storage
            ELSE /\ sitesPc' = "usgs"
                 /\ network' = <<USGS_SITE_URL>>
       /\ (sitesPc = "usgs" /\ now' = now) =>
            IF sitesPc' = "idle"
            THEN sitesResult'.items # <<>>
            ELSE /\ sitesPc' \in {"overpass", "fallback"}
                 /\ mirror' = 1
                 /\ network' = Append(network, OVERPASS_MIRRORS[1])
       /\ (sitesPc = "fallback" /\ sitesPc' = "idle" /\ ClaimOverpassFailed) =>
            /\ sitesResult' = Array(<<>>)
            /\ storage' = storage
            /\ ~ClaimCached(storage', now')
       /\ (sitesPc # "idle" /\ storage' # storage) =>
            /\ sitesPc' = "idle"
            /\ storage'[fp(SitesKey)].type = "json"
            /\ storage'[fp(SitesKey)].v = sitesResult']_vars

\* USGS had no site and Overpass failed in the try block and in the fallback:
\* the call gave the empty list and the storage holds no list
C27_Witness ==
    /\ sitesPc = "idle"
    /\ sitesResult = Array(<<>>)
    /\ network = <<USGS_SITE_URL, OVERPASS_MIRRORS[1], OVERPASS_MIRRORS[2],
                   OVERPASS_MIRRORS[1], OVERPASS_MIRRORS[2]>>
    /\ overpassOutcome.type = "threw"
    /\ ~ClaimCached(storage, now)

----------------------------------------------------------------------------
(* The claims about App *)

\* C29: a geolocation answer leaves the center, the selection and the
\* selected site as they are once a center is set, however it was set; with
\* no center set, a fix becomes the center; asking for a fix changes none of them
C29_FixOnlyWithoutCenter ==
    [][/\ geoPending' < geoPending =>
            IF Truthy(center)
            THEN /\ center' = center
                 /\ selectedSiteId' = selectedSiteId
                 /\ siteInfo' = siteInfo
            ELSE /\ selectedSiteId' = selectedSiteId
                 /\ center' = pos'
       /\ geoPending' > geoPending =>
            /\ center' = center
            /\ selectedSiteId' = selectedSiteId
            /\ siteInfo' = siteInfo]_vars

\* the first fix became the center, and a later, different fix did not replace it
C29_Witness ==
    /\ center = Place(40, -86)
    /\ pos = Place(41, -86)
    /\ geoPending = 0

\* C28: once no run of the weather effect waits, wx is the forecast of the
\* selected site and date, and hydro the readings of the selected site
C28_FreshWhenSettled ==
    (wxInFlight = {} /\ Truthy(siteInfo)) =>
        /\ wx # Null => wx = Weather(siteInfo.lat, siteInfo.lon, dateIso)
        /\ hydro # Null =>
              siteInfo.source = Text("USGS") /\ hydro = Hydrology(siteInfo.id)

----------------------------------------------------------------------------
(* The claims about the service worker *)

\* C30: for a cross-origin request, a response found in the cache is what the
\* page gets, whatever the network does; fetch is called for every such
\* request; c.put is called only for a response of status 200, so an entry of
\* the cache changes only to a response of status 200 and is never removed
C30_StaleWhileRevalidate ==
    [][/\ \A i \in 1..Len(swEvents') :
            swEvents'[i].request.origin = "cross" =>
                /\ swEvents'[i].fetched
                /\ Truthy(swEvents'[i].cacheRes) =>
                        swEvents'[i].delivered = swEvents'[i].cacheRes
                /\ swEvents'[i].stage = "putting" => swEvents'[i].networkRes.status = 200
       /\ \A r \in RequestInputs :
            (r.origin = "cross" /\ swCache'[r.url] # swCache[r.url]) =>
                /\ swCache'[r.url] # Undefined
                /\ swCache'[r.url].status = 200
       /\ \A i \in 1..Len(swEvents) :
            (/\ swEvents[i].request.origin = "cross"
             /\ swEvents[i].stage = "fetching"
             /\ swEvents'[i].stage = "done") => swCache' = swCache]_vars

\* a cross-origin request found a stored response; the network answered 404;
\* the page got the stored response and the cache still holds it
C30_Witness ==
    \E i \in 1..Len(swEvents) :
        /\ swEvents[i].request.origin = "cross"
        /\ swEvents[i].cacheRes = Response(200, "stored")
        /\ swEvents[i].networkRes = Response(404, "not found")
        /\ swEvents[i].stage = "done"
        /\ swEvents[i].delivered = Response(200, "stored")
        /\ swCache[swEvents[i].request.url] = Response(200, "stored")

====
